---- MODULE Spec2Model ----
(***************************************************************************)
(* Model of music_mesa_tables: the Fortran unformatted record reader       *)
(* (fort_unfmt.rs), the axis primitives (index.rs, is_close.rs) and the    *)
(* interpolation primitives (interp.rs).                                   *)
(*                                                                         *)
(* f64 values are modelled as exact rationals <<num, den>> in lowest terms *)
(* with den > 0.  One unit is 1e-12, so that the tolerance of is_close is  *)
(* the rational 1: values that differ by less than, exactly, or more than  *)
(* the tolerance are all representable.  Rounding of f64 is not modelled.  *)
(***************************************************************************)
EXTENDS Integers, Sequences, FiniteSets, TLC

VARIABLES
    \* ---- fort_unfmt.rs: one call of read_fort_record ----
    stream,     \* the bytes the reader holds
    pos,        \* number of bytes already consumed
    elt_size,   \* <T as FromRawBinary>::read_size(): 4 (u32) or 8 (f64)
    buffer,     \* the destination slice
    pc,         \* position inside read_fort_record
    pre_size,   \* the leading length once read
    err,        \* the io::Error returned, or NoErr
    \* ---- index.rs / interp.rs: an object and the last call made on it ----
    axis,       \* the Range or CustomRange that was built, or NoAxis
    opac,       \* the opacity table held (opacity_tables.rs), or NoTable
    linear,     \* the LinearInterpolator built (interp.rs): <<>> or <<it>>
    call,       \* the last call: [op, arg, res]
    \* ---- eos_tables.rs / state.rs ----
    eos,        \* the EOS table held (eos_tables.rs), or NoTable
    state       \* the CstMetalState or CstCompoState built (state.rs), or NoState

fortVars == <<stream, pos, elt_size, buffer, pc, pre_size, err>>

callVars == <<axis, opac, linear, call>>

eosVars == <<eos, state>>

vars == <<stream, pos, elt_size, buffer, pc, pre_size, err, axis, opac, linear, call,
          eos, state>>

----------------------------------------------------------------------------
(* Bounds of the model *)

\* largest number of elements of a destination buffer / of a payload
MaxElts == 2

\* longest slice handed to Range::from_slice and CustomRange::new
MaxLen == 4

\* slice values are 0..MaxVal, in units of 1e-12
MaxVal == 9

\* the grids interpolated in two dimensions have GridLen x GridLen points
GridLen == 5

\* the arrays handed to a state have 1 to MaxCells elements
MaxCells == 2

\* the axes of a decoded table have 2 to MaxAxisLen points
MaxAxisLen == 3

\* an EOS table has EosLen energies, EosLen volumes and NVars state variables
EosLen == 4
NVars == 2

----------------------------------------------------------------------------
(* f64 arithmetic, as exact rationals <<num, den>>, den > 0, lowest terms *)

Abs(n) == IF n < 0 THEN -n ELSE n

RECURSIVE GCD(_, _)
GCD(a, b) == IF b = 0 THEN a ELSE GCD(b, a % b)

\* F applied to the value v: a let-binding whose value is written once
Let(v, F(_)) == F(v)

Norm(n, d) ==
    Let(GCD(Abs(n), Abs(d)),
        LAMBDA g : <<((IF d < 0 THEN -1 ELSE 1) * n) \div g, Abs(d) \div g>>)

R(n) == <<n, 1>>
RAdd(a, b) == Norm(a[1] * b[2] + b[1] * a[2], a[2] * b[2])
RSub(a, b) == Norm(a[1] * b[2] - b[1] * a[2], a[2] * b[2])
RMul(a, b) == Norm(a[1] * b[1], a[2] * b[2])
RDiv(a, b) == Norm(a[1] * b[2], a[2] * b[1])
RLt(a, b) == a[1] * b[2] < b[1] * a[2]
RLe(a, b) == a[1] * b[2] <= b[1] * a[2]
RAbs(a) == <<Abs(a[1]), a[2]>>
\* f64::floor
RFloor(a) == a[1] \div a[2]

----------------------------------------------------------------------------
(* fort_unfmt.rs *)

NoErr == [kind |-> "none"]

\* faulty variant, for sensitivity runs: the bytes taken in big-endian order
u32_from_be_bytes(b) == b[4] + 256 * (b[3] + 256 * (b[2] + 256 * b[1]))

\* u32::from_le_bytes: byte k (0-based) has weight 256^k
u32_from_le_bytes(b) == b[1] + 256 * (b[2] + 256 * (b[3] + 256 * b[4]))

\* f64::from_le_bytes: the 64-bit pattern, kept as <<high word, low word>>
f64_from_le_bytes(b) ==
    <<u32_from_le_bytes(SubSeq(b, 5, 8)), u32_from_le_bytes(SubSeq(b, 1, 4))>>

\* FromRawBinary::read_size
read_size(T) == IF T = "u32" THEN 4 ELSE 8

\* the element type whose read_size is elt_size
EltType == IF elt_size = 4 THEN "u32" ELSE "f64"

\* the zero the tests fill the destination with (0_u32, 0_f64)
ZeroOf(T) == IF T = "u32" THEN 0 ELSE <<0, 0>>

\* read_exact: can `size` more bytes be taken from the stream
CanRead(size) == Len(stream) - pos >= size

\* the next `size` bytes of the stream
NextBytes(size) == SubSeq(stream, pos + 1, pos + size)

\* FromRawBinary::read_in, the decoded value (when CanRead holds)
read_in(T) ==
    IF T = "u32" THEN u32_from_le_bytes(NextBytes(4))
                 ELSE f64_from_le_bytes(NextBytes(8))

\* the io::Error of a failed read_exact, propagated by `?`
EofErr == [kind |-> "UnexpectedEof"]

\* io::Error::new(InvalidData, "requested {expected} ... has {actual}")
InvalidData(where, expected, actual) ==
    [kind |-> "InvalidData", where |-> where,
     expected |-> expected, actual |-> actual]

\* buffer.len() * read_size()
expected_size == Len(buffer) * elt_size

\* faulty variant, for sensitivity runs: the leading length is read but never compared
ReadPreSize_unchecked ==
    /\ pc = "pre"
    /\ IF ~CanRead(4)
       THEN /\ pc' = "err"
            /\ err' = EofErr
            /\ UNCHANGED <<pos, pre_size>>
       ELSE /\ pos' = pos + 4
            /\ pre_size' = read_in("u32")
            /\ pc' = "elts"
            /\ err' = err
    /\ UNCHANGED <<stream, elt_size, buffer>>
    /\ UNCHANGED <<callVars, eosVars>>

\* lines 49-56: read the leading length and compare it with expected_size
ReadPreSize ==
    /\ pc = "pre"
    /\ IF ~CanRead(4)
       THEN /\ pc' = "err"
            /\ err' = EofErr
            /\ UNCHANGED <<pos, pre_size>>
       ELSE /\ pos' = pos + 4
            /\ pre_size' = read_in("u32")
            /\ IF read_in("u32") # expected_size
               THEN /\ pc' = "err"
                    /\ err' = InvalidData("pre", expected_size, read_in("u32"))
               ELSE /\ pc' = "elts"
                    /\ err' = err
    /\ UNCHANGED <<stream, elt_size, buffer>>
    /\ UNCHANGED <<callVars, eosVars>>

\* lines 57-59: one iteration of the loop over buffer.iter_mut()
ReadElt ==
    /\ pc = "elts"
    /\ pos < 4 + expected_size
    /\ LET k == ((pos - 4) \div elt_size) + 1 IN
       IF ~CanRead(elt_size)
       THEN /\ pc' = "err"
            /\ err' = EofErr
            /\ UNCHANGED <<pos, buffer>>
       ELSE /\ pos' = pos + elt_size
            /\ buffer' = [buffer EXCEPT ![k] = read_in(EltType)]
            /\ UNCHANGED <<pc, err>>
    /\ UNCHANGED <<stream, elt_size, pre_size>>
    /\ UNCHANGED <<callVars, eosVars>>

\* lines 60-67: read the trailing length and compare it with the leading one
ReadPostSize ==
    /\ pc = "elts"
    /\ pos = 4 + expected_size
    /\ IF ~CanRead(4)
       THEN /\ pc' = "err"
            /\ err' = EofErr
            /\ pos' = pos
       ELSE /\ pos' = pos + 4
            /\ IF read_in("u32") # pre_size
               THEN /\ pc' = "err"
                    /\ err' = InvalidData("post", pre_size, read_in("u32"))
               ELSE /\ pc' = "ok"
                    /\ err' = err
    /\ UNCHANGED <<stream, elt_size, buffer, pre_size>>
    /\ UNCHANGED <<callVars, eosVars>>

\* read_fort_record, step by step
read_fort_record == ReadPreSize \/ ReadElt \/ ReadPostSize

(* The streams and buffers the reader is started on *)

\* the 4 bytes a Fortran writer puts around a record of n bytes
EncodeLe32(n) ==
    <<n % 256, (n \div 256) % 256, (n \div 65536) % 256, (n \div 16777216) % 256>>

\* lengths found around records: right ones, wrong ones, and 260 = 4 + 256,
\* which agrees with 4 on its low byte only
SizeWords == {0, 4, 8, 16, 260}

\* element payloads (from the tests read_3_u32 and read_2_f64)
Chunks(E) ==
    IF E = 4 THEN {<<18, 52, 86, 120>>, <<42, 0, 0, 0>>}
             ELSE {<<0, 0, 0, 0, 0, 0, 240, 63>>, <<24, 45, 68, 84, 251, 33, 9, 64>>}

RECURSIVE Flatten(_)
Flatten(ss) == IF ss = <<>> THEN <<>> ELSE Head(ss) \o Flatten(Tail(ss))

\* no axis call is in progress
AxisIdle ==
    /\ axis = [kind |-> "none"] /\ opac = [kind |-> "none"]
    /\ linear = <<>> /\ call = [op |-> "none"]
    /\ eos = [kind |-> "none"] /\ state = [kind |-> "none"]

\* no record is being read
FortIdle ==
    /\ stream = <<>> /\ pos = 0 /\ elt_size = 4 /\ buffer = <<>>
    /\ pc = "idle" /\ pre_size = 0 /\ err = NoErr

InitFort ==
    /\ AxisIdle
    /\ \E E \in {4, 8}, N \in 0..MaxElts, M \in 0..MaxElts,
       pre \in SizeWords, post \in SizeWords :
      \E chunks \in [1..M -> Chunks(E)] :
        LET full == EncodeLe32(pre) \o Flatten(chunks) \o EncodeLe32(post) IN
        \E cut \in 0..Len(full) :
          /\ stream = SubSeq(full, 1, cut)
          /\ pos = 0
          /\ elt_size = E
          /\ buffer = [k \in 1..N |-> ZeroOf(IF E = 4 THEN "u32" ELSE "f64")]
          /\ pc = "pre"
          /\ pre_size = 0
          /\ err = NoErr

NextFort == ReadPreSize \/ ReadElt \/ ReadPostSize

SpecFort == InitFort /\ [][NextFort]_vars

----------------------------------------------------------------------------
(* Properties of read_fort_record *)

RECURSIVE Pow256(_)
Pow256(j) == IF j = 0 THEN 1 ELSE 256 * Pow256(j - 1)

\* value of the 4 stream bytes that follow offset `off`, low byte first
RECURSIVE WordAt(_, _)
WordAt(off, j) ==
    IF j = 4 THEN 0 ELSE stream[off + j + 1] * Pow256(j) + WordAt(off, j + 1)

\* the read has returned
FortDone == pc \in {"ok", "err"}

\* number of payload bytes the destination asks for
NE == Len(buffer) * elt_size

HasLead == Len(stream) >= 4
LeadOk == HasLead /\ WordAt(0, 0) = NE
HasRecord == Len(stream) >= 8 + NE
TrailOk == HasRecord /\ WordAt(4 + NE, 0) = WordAt(0, 0)

\* the k-th payload chunk (1-based) decoded little-endian
ChunkValue(k) ==
    LET off == 4 + (k - 1) * elt_size IN
    IF elt_size = 4 THEN WordAt(off, 0) ELSE <<WordAt(off + 4, 0), WordAt(off, 0)>>

\* C1: read_fort_record succeeds exactly when the stream holds a 4-byte
\* little-endian length equal to N*E, then N*E payload bytes, then a 4-byte
\* trailer equal to the leading length; on success buffer[k] is the
\* little-endian decoding of the k-th payload chunk, in stream order.
C1_RecordRead ==
    FortDone =>
        /\ (pc = "ok") <=> (LeadOk /\ HasRecord /\ TrailOk)
        /\ pc = "ok" => \A k \in 1..Len(buffer) : buffer[k] = ChunkValue(k)

\* a two-element f64 record has been read in full
C1_Witness ==
    /\ pc = "ok" /\ elt_size = 8 /\ Len(buffer) = 2
    /\ buffer[1] # buffer[2] /\ buffer[2] # <<0, 0>>

\* the cases C2 lists
LeadDiffers == HasLead /\ WordAt(0, 0) # NE
TrailDiffers == HasRecord /\ WordAt(4 + NE, 0) # WordAt(0, 0)
StreamShort == ~HasRecord

\* C2 as stated: in each of the three cases (leading length differs from
\* N*E, trailing length differs from the leading one, stream ends before the
\* full record) the read fails with a data-format error that identifies the
\* expected and the actual size.
C2_AllFailuresAreDataFormat ==
    (FortDone /\ (LeadDiffers \/ TrailDiffers \/ StreamShort)) =>
        /\ pc = "err"
        /\ err.kind = "InvalidData"
        /\ {"expected", "actual"} \subseteq DOMAIN err

\* C2 (amended): the read fails in each of the three cases.  A leading length
\* that differs from N*E gives InvalidData naming N*E and the length found; a
\* trailer that differs from the leading length (the record being complete
\* and well led) gives InvalidData naming the leading length and the trailer
\* found; a stream that ends before the next length or element can be read
\* in full gives the reader's UnexpectedEof error, which names no size.
C2_FailureKinds ==
    FortDone =>
        /\ (LeadDiffers \/ TrailDiffers \/ StreamShort) => pc = "err"
        /\ LeadDiffers => err = InvalidData("pre", NE, WordAt(0, 0))
        /\ (LeadOk /\ TrailDiffers) =>
               err = InvalidData("post", WordAt(0, 0), WordAt(4 + NE, 0))
        /\ (~HasLead \/ (LeadOk /\ StreamShort)) => err = EofErr

\* a record cut inside its payload has been rejected with UnexpectedEof
C2_Witness ==
    /\ pc = "err" /\ err = EofErr
    /\ LeadOk /\ StreamShort /\ Len(stream) > 4 /\ Len(buffer) = 2

----------------------------------------------------------------------------
(* is_close.rs *)

\* the absolute tolerance 1e-12, in units of 1e-12
TolUnits == 1

\* IsClose for f64: (self - other).abs() <= 1e-12
is_close(a, b) == RLe(RAbs(RSub(a, b)), R(TolUnits))

----------------------------------------------------------------------------
(* index.rs *)

Ok(x) == [tag |-> "Ok", val |-> x]
Err(e) == [tag |-> "Err", val |-> e]
Panic(m) == [tag |-> "Panic", val |-> m]

None == [some |-> FALSE, val |-> R(0)]
Some(x) == [some |-> TRUE, val |-> x]

\* struct OutOfBoundsError { value }
OutOfBoundsError(value) == [error |-> "OutOfBounds", value |-> value]

\* enum IdxLin
Exact(i) == [tag |-> "Exact", i |-> i, j |-> i]
Between(i, j) == [tag |-> "Between", i |-> i, j |-> j]

\* struct Range { first, step, n_values }
Range(first, step, n_values) ==
    [kind |-> "Range", first |-> first, step |-> step, n_values |-> n_values]

\* struct CustomRange(Vec<f64>)
CustomRange(values) == [kind |-> "Custom", values |-> values]

NoAxis == [kind |-> "none"]

\* faulty variant, for sensitivity runs: the index is applied one step too far
Range_get_shifted(r, index) ==
    IF index >= r.n_values THEN None
    ELSE Some(RAdd(RMul(R(index + 1), r.step), r.first))

\* Indexable for Range: get (indices are 0-based)
Range_get(r, index) ==
    IF index >= r.n_values THEN None
    ELSE Some(RAdd(RMul(R(index), r.step), r.first))

\* Indexable for CustomRange: get
CustomRange_get(c, index) ==
    IF index < Len(c.values) THEN Some(c.values[index + 1]) ELSE None

get(ax, index) ==
    IF ax.kind = "Range" THEN Range_get(ax, index) ELSE CustomRange_get(ax, index)

\* Indexable::at: get(index).expect(..)
at(ax, index) == get(ax, index).val

\* Range::last
last(r) == at(r, r.n_values - 1)

\* faulty variant, for sensitivity runs: the linearity check is dropped
Range_from_slice_unchecked(slc) ==
    LET n_values == Len(slc) IN
    IF n_values < 2 THEN Err("FewerThanTwoValues")
    ELSE LET first == slc[1]
             step == RDiv(RSub(slc[n_values], first), R(n_values - 1))
         IN  IF RLe(step, R(0)) THEN Err("NotInIncreasingOrder")
             ELSE Ok(Range(first, step, n_values))

\* Range::from_slice
Range_from_slice(slc) ==
    LET n_values == Len(slc) IN
    IF n_values < 2 THEN Err("FewerThanTwoValues")
    ELSE LET first == slc[1]
             step == RDiv(RSub(slc[n_values], first), R(n_values - 1))
             range == Range(first, step, n_values)
         IN  IF RLe(step, R(0)) THEN Err("NotInIncreasingOrder")
             ELSE IF ~(\A i \in 0..(n_values - 1) :
                         is_close(Range_get(range, i).val, slc[i + 1]))
                  THEN Err("NotLinear")
                  ELSE Ok(range)

\* CustomRange::new
CustomRange_new(values) ==
    LET n_values == Len(values) IN
    IF n_values < 2 THEN Err("FewerThanTwoValues")
    ELSE IF ~(\A i \in 1..(n_values - 1) : RLt(values[i], values[i + 1]))
         THEN Err("NotInIncreasingOrder")
         ELSE Ok(CustomRange(values))

\* faulty variant, for sensitivity runs: neither neighbour of the guess is tested
ClassifyGuess_untested(ax, value, iguess) == Ok(Between(iguess, iguess + 1))

\* faulty variant, for sensitivity runs: the right neighbour of the guess is not tested
ClassifyGuess_leftonly(ax, value, iguess) ==
    IF is_close(value, at(ax, iguess)) THEN Ok(Exact(iguess))
    ELSE Ok(Between(iguess, iguess + 1))

\* the tail of both idx_lin: test the guess and its right neighbour
ClassifyGuess(ax, value, iguess) ==
    IF is_close(value, at(ax, iguess)) THEN Ok(Exact(iguess))
    ELSE IF get(ax, iguess + 1).some /\ is_close(get(ax, iguess + 1).val, value)
         THEN Ok(Exact(iguess + 1))
         ELSE Ok(Between(iguess, iguess + 1))

\* faulty variant, for sensitivity runs: the lower bound is not checked and the guess is clamped at 0
Range_idx_lin_clamped(r, value) ==
    IF is_close(value, r.first) THEN Ok(Exact(0))
    ELSE IF is_close(value, last(r)) THEN Ok(Exact(r.n_values - 1))
    ELSE IF RLt(last(r), value) THEN Err(OutOfBoundsError(value))
    ELSE IF RLt(value, r.first) THEN Ok(Exact(0))
    ELSE ClassifyGuess(r, value, RFloor(RDiv(RSub(value, r.first), r.step)))

\* LinearInterpolable for Range: idx_lin
Range_idx_lin(r, value) ==
    IF is_close(value, r.first) THEN Ok(Exact(0))
    ELSE IF is_close(value, last(r)) THEN Ok(Exact(r.n_values - 1))
    ELSE IF RLt(value, r.first) \/ RLt(last(r), value)
         THEN Err(OutOfBoundsError(value))
         ELSE ClassifyGuess(r, value, RFloor(RDiv(RSub(value, r.first), r.step)))

\* LinearInterpolable for CustomRange: idx_lin
CustomRange_idx_lin(c, value) ==
    LET n == Len(c.values)
        ilast == n - 1
    IN  IF is_close(value, c.values[1]) THEN Ok(Exact(0))
        ELSE IF is_close(value, c.values[ilast + 1]) THEN Ok(Exact(n - 1))
        ELSE IF RLt(value, c.values[1]) \/ RLt(c.values[ilast + 1], value)
             THEN Err(OutOfBoundsError(value))
             ELSE LET above == {i \in 0..ilast : RLt(value, c.values[i + 1])} IN
                  IF above = {} THEN Panic("unwrap on None")
                  ELSE LET ifound == CHOOSE i \in above : \A k \in above : i <= k IN
                       IF ifound = 0 THEN Panic("subtract with overflow")
                       ELSE ClassifyGuess(c, value, ifound - 1)

idx_lin(ax, value) ==
    IF ax.kind = "Range" THEN Range_idx_lin(ax, value)
                         ELSE CustomRange_idx_lin(ax, value)

\* LinearInterpolator::new (interp.rs)
LinearInterpolator_new(left_anchor, right_anchor, at_) ==
    IF ~RLt(left_anchor, right_anchor)
    THEN Panic("assertion failed: left_anchor < right_anchor")
    ELSE IF ~(RLt(left_anchor, at_) /\ RLt(at_, right_anchor))
         THEN Panic("assertion failed: at > left_anchor && at < right_anchor")
         ELSE Ok([left_coef |->
                    RDiv(RSub(right_anchor, at_), RSub(right_anchor, left_anchor))])

\* enum LinearStencil (interp.rs)
LinearStencil_Exact(i, value) ==
    [tag |-> "Exact", i |-> i, j |-> i, value |-> value, lin |-> [left_coef |-> R(1)]]
LinearStencil_Between(ileft, iright, lin) ==
    [tag |-> "Between", i |-> ileft, j |-> iright, value |-> R(0), lin |-> lin]

\* LinearInterpolable::linear_stencil
linear_stencil(ax, value) ==
    Let(idx_lin(ax, value), LAMBDA idx :
    IF idx.tag # "Ok" THEN idx
    ELSE IF idx.val.tag = "Exact" THEN Ok(LinearStencil_Exact(idx.val.i, value))
    ELSE Let(LinearInterpolator_new(at(ax, idx.val.i), at(ax, idx.val.j), value),
             LAMBDA lin :
             IF lin.tag # "Ok" THEN lin
             ELSE Ok(LinearStencil_Between(idx.val.i, idx.val.j, lin.val))))

\* Range::contains
Range_contains(r, value) ==
    \/ (RLe(r.first, value) /\ RLe(value, last(r)))
    \/ is_close(value, r.first)
    \/ is_close(value, last(r))

\* faulty variant, for sensitivity runs: the first point found is not counted
Range_subrange_in_uncounted(self, other) ==
    LET found == {i \in 0..(self.n_values - 1) : Range_contains(other, at(self, i))} IN
    IF found = {} THEN None
    ELSE LET ifirst == CHOOSE i \in found : \A k \in found : i <= k
             n_values == Cardinality({i \in (ifirst + 1)..(self.n_values - 1) :
                                         Range_contains(other, at(self, i))})
         IN  IF n_values >= 2 THEN Some(Range(at(self, ifirst), self.step, n_values))
                              ELSE None

\* Range::subrange_in: `find` gives the first point of self that other
\* contains (`?` returns None when there is none), `filter .. count` counts
\* the later ones
Range_subrange_in(self, other) ==
    LET found == {i \in 0..(self.n_values - 1) : Range_contains(other, at(self, i))} IN
    IF found = {} THEN None
    ELSE LET ifirst == CHOOSE i \in found : \A k \in found : i <= k
             n_values == 1 + Cardinality({i \in (ifirst + 1)..(self.n_values - 1) :
                                             Range_contains(other, at(self, i))})
         IN  IF n_values >= 2 THEN Some(Range(at(self, ifirst), self.step, n_values))
                              ELSE None

\* SplineStencil::Exact { i, value }
SplineStencil_Exact(i, value) == [tag |-> "Exact", i |-> i, value |-> value]

\* the stencil spline_stencil builds: SplineStencil { r, xs, at }
SplineStencil_Centered(r, xs, at_) ==
    [tag |-> "Centered", r |-> r, xs |-> xs, at |-> at_]

\* faulty variant, for sensitivity runs: values below axis[1] are not rejected
Range_spline_stencil_nolower(r, value) ==
    LET rside == at(r, r.n_values - 2)
    IN  IF r.n_values < 4 THEN Err(OutOfBoundsError(value))
        ELSE IF RLe(rside, value)
             THEN Err(OutOfBoundsError(value))
             ELSE LET iguess == RFloor(RDiv(RSub(value, r.first), r.step)) IN
                  Ok(SplineStencil_Centered(
                        <<iguess - 1, iguess + 3>>,
                        <<at(r, iguess - 1), at(r, iguess),
                          at(r, iguess + 1), at(r, iguess + 2)>>,
                        value))

\* Range::spline_stencil; r is the half-open range <<start, end>>
Range_spline_stencil(r, value) ==
    LET lside == at(r, 1)
        rside == at(r, r.n_values - 2)
    IN  IF r.n_values < 4 THEN Err(OutOfBoundsError(value))
        ELSE IF RLt(value, lside) \/ RLe(rside, value)
             THEN Err(OutOfBoundsError(value))
             ELSE LET iguess == RFloor(RDiv(RSub(value, r.first), r.step)) IN
                  Ok(SplineStencil_Centered(
                        <<iguess - 1, iguess + 3>>,
                        <<at(r, iguess - 1), at(r, iguess),
                          at(r, iguess + 1), at(r, iguess + 2)>>,
                        value))

----------------------------------------------------------------------------
(* interp.rs.  An ndarray is a function from index tuples (0-based) *)

\* LinearInterpolator::interp_scalar
interp_scalar(lin, left, right) ==
    RAdd(RMul(left, lin.left_coef), RMul(right, RSub(R(1), lin.left_coef)))

\* ArrayBase::to_owned
to_owned(arr) == [t \in DOMAIN arr |-> arr[t]]

\* `arr *= c`
mul_assign(arr, c) == [t \in DOMAIN arr |-> RMul(arr[t], c)]

\* faulty variant, for sensitivity runs: scaled_add that forgets the factor
scaled_add_unscaled(arr, alpha, rhs) == [t \in DOMAIN arr |-> RAdd(arr[t], rhs[t])]

\* ArrayBase::scaled_add: arr += alpha * rhs
scaled_add(arr, alpha, rhs) ==
    [t \in DOMAIN arr |-> RAdd(arr[t], RMul(alpha, rhs[t]))]

\* LinearInterpolator::interp
interp(lin, left, right) ==
    scaled_add(mul_assign(to_owned(left), lin.left_coef),
               RSub(R(1), lin.left_coef), right)

\* a tuple without / with a component at 0-based position ax
DropAt(s, ax) == SubSeq(s, 1, ax) \o SubSeq(s, ax + 2, Len(s))
InsertAt(s, ax, i) == SubSeq(s, 1, ax) \o <<i>> \o SubSeq(s, ax + 1, Len(s))

\* ArrayBase::index_axis / index_axis_move
index_axis(arr, ax, i) ==
    [s \in {DropAt(t, ax) : t \in {u \in DOMAIN arr : u[ax + 1] = i}}
        |-> arr[InsertAt(s, ax, i)]]

\* ArrayBase::slice_axis_inplace with the range lo..hi (hi excluded)
slice_axis(arr, ax, lo, hi) ==
    [s \in {[t EXCEPT ![ax + 1] = t[ax + 1] - lo] :
               t \in {u \in DOMAIN arr : lo <= u[ax + 1] /\ u[ax + 1] < hi}}
        |-> arr[[s EXCEPT ![ax + 1] = s[ax + 1] + lo]]]

\* LinearStencil::apply_to
LinearStencil_apply_to(st, arr) ==
    IF st.tag = "Exact" THEN arr[<<st.i>>]
    ELSE interp_scalar(st.lin, arr[<<st.i>>], arr[<<st.j>>])

\* LinearStencil::slice_view: the stencil returned
LinearStencil_slice_view(st) ==
    IF st.tag = "Exact" THEN LinearStencil_Exact(0, st.value)
    ELSE LinearStencil_Between(0, 1, st.lin)

\* LinearStencil::slice_view: the view after slice_axis_inplace
LinearStencil_sliced(st, ax, arr) ==
    IF st.tag = "Exact" THEN slice_axis(arr, ax, st.i, st.i + 1)
    ELSE slice_axis(arr, ax, st.i, st.j + 1)

\* faulty variant, for sensitivity runs: the two blended columns are exchanged
lin_interp_2d_exchanged(x_st, y_st, z) ==
    IF x_st.tag = "Exact" THEN LinearStencil_apply_to(y_st, index_axis(z, 0, x_st.i))
    ELSE IF y_st.tag = "Exact"
         THEN LinearStencil_apply_to(x_st, index_axis(z, 1, y_st.i))
         ELSE LET z_at_iyl == LinearStencil_apply_to(x_st, index_axis(z, 1, y_st.i))
                  z_at_iyr == LinearStencil_apply_to(x_st, index_axis(z, 1, y_st.j))
              IN  interp_scalar(y_st.lin, z_at_iyr, z_at_iyl)

\* lin_interp_2d
lin_interp_2d(x_st, y_st, z) ==
    IF x_st.tag = "Exact" THEN LinearStencil_apply_to(y_st, index_axis(z, 0, x_st.i))
    ELSE IF y_st.tag = "Exact"
         THEN LinearStencil_apply_to(x_st, index_axis(z, 1, y_st.i))
         ELSE LET z_at_iyl == LinearStencil_apply_to(x_st, index_axis(z, 1, y_st.i))
                  z_at_iyr == LinearStencil_apply_to(x_st, index_axis(z, 1, y_st.j))
              IN  interp_scalar(y_st.lin, z_at_iyl, z_at_iyr)

\* faulty variant, for sensitivity runs: the left slope is taken over the inner interval only
low_level_spline_badslope(x, y, at_) ==
    LET dy_dx_left == RDiv(RSub(y[3], y[1]), RSub(x[3], x[2]))
        dy_dx_right == RDiv(RSub(y[4], y[2]), RSub(x[4], x[2]))
        a == RSub(RMul(dy_dx_left, RSub(x[3], x[2])), RSub(y[3], y[2]))
        b == RAdd(RMul(RSub(R(0), dy_dx_right), RSub(x[3], x[2])), RSub(y[3], y[2]))
        t == RDiv(RSub(at_, x[2]), RSub(x[3], x[2]))
        u == RSub(R(1), t)
    IN  RAdd(RAdd(RMul(u, y[2]), RMul(t, y[3])),
             RMul(RMul(t, u), RAdd(RMul(a, u), RMul(b, t))))

\* low_level_spline; x and y are 4-tuples (x[1] is the source's x[0])
low_level_spline(x, y, at_) ==
    LET dy_dx_left == RDiv(RSub(y[3], y[1]), RSub(x[3], x[1]))
        dy_dx_right == RDiv(RSub(y[4], y[2]), RSub(x[4], x[2]))
        a == RSub(RMul(dy_dx_left, RSub(x[3], x[2])), RSub(y[3], y[2]))
        b == RAdd(RMul(RSub(R(0), dy_dx_right), RSub(x[3], x[2])), RSub(y[3], y[2]))
        t == RDiv(RSub(at_, x[2]), RSub(x[3], x[2]))
        u == RSub(R(1), t)
    IN  RAdd(RAdd(RMul(u, y[2]), RMul(t, y[3])),
             RMul(RMul(t, u), RAdd(RMul(a, u), RMul(b, t))))

\* SplineStencil::apply_to; r is the half-open range <<start, end>>
SplineStencil_apply_to(st, arr) ==
    IF st.tag = "Exact" THEN arr[<<st.i>>]
    ELSE LET i == st.r[1]
             y == <<arr[<<i>>], arr[<<i + 1>>], arr[<<i + 2>>], arr[<<i + 3>>]>>
         IN  low_level_spline(st.xs, y, st.at)

\* SplineStencil::slice_view: the stencil returned
SplineStencil_slice_view(st) ==
    IF st.tag = "Exact" THEN SplineStencil_Exact(0, st.value)
    ELSE SplineStencil_Centered(<<0, 4>>, st.xs, st.at)

\* SplineStencil::slice_view: the view after slice_axis_inplace
SplineStencil_sliced(st, ax, arr) ==
    IF st.tag = "Exact" THEN slice_axis(arr, ax, st.i, st.i + 1)
    ELSE slice_axis(arr, ax, st.r[1], st.r[2])

\* faulty variant, for sensitivity runs: an exact x index is taken along axis 1
cubic_spline_2d_wrongaxis(x_st, y_st, z) ==
    IF x_st.tag = "Exact" THEN SplineStencil_apply_to(y_st, index_axis(z, 1, x_st.i))
    ELSE IF y_st.tag = "Exact"
         THEN SplineStencil_apply_to(x_st, index_axis(z, 1, y_st.i))
         ELSE LET z_at_ys == [k \in 1..4 |->
                     SplineStencil_apply_to(x_st, index_axis(z, 1, y_st.r[1] + k - 1))]
              IN  low_level_spline(y_st.xs, z_at_ys, y_st.at)

\* cubic_spline_2d
cubic_spline_2d(x_st, y_st, z) ==
    IF x_st.tag = "Exact" THEN SplineStencil_apply_to(y_st, index_axis(z, 0, x_st.i))
    ELSE IF y_st.tag = "Exact"
         THEN SplineStencil_apply_to(x_st, index_axis(z, 1, y_st.i))
         ELSE LET z_at_ys == [k \in 1..4 |->
                     SplineStencil_apply_to(x_st, index_axis(z, 1, y_st.r[1] + k - 1))]
              IN  low_level_spline(y_st.xs, z_at_ys, y_st.at)

----------------------------------------------------------------------------
(* opacity_tables.rs *)

Opac_AllTables(metallicities, h_fracs, log_temperature, log_r, values) ==
    [kind |-> "AllTables", metallicities |-> metallicities, h_fracs |-> h_fracs,
     log_temperature |-> log_temperature, log_r |-> log_r, values |-> values]

Opac_ConstMetalTables(metallicity, h_fracs, log_temperature, log_r, values) ==
    [kind |-> "ConstMetalTables", metallicity |-> metallicity, h_fracs |-> h_fracs,
     log_temperature |-> log_temperature, log_r |-> log_r, values |-> values]

RTempTable(metallicity, h_frac, log_temperature, log_r, values) ==
    [kind |-> "RTempTable", metallicity |-> metallicity, h_frac |-> h_frac,
     log_temperature |-> log_temperature, log_r |-> log_r, values |-> values]

\* AllTables::take_at_metallicity
Opac_take_at_metallicity(self, metallicity) ==
    LET idx == idx_lin(self.metallicities, metallicity) IN
    IF idx.tag # "Ok" THEN idx
    ELSE IF idx.val.tag = "Exact"
    THEN Ok(Opac_ConstMetalTables(metallicity, self.h_fracs, self.log_temperature,
                                  self.log_r, index_axis(self.values, 0, idx.val.i)))
    ELSE LET lin == LinearInterpolator_new(at(self.metallicities, idx.val.i),
                                           at(self.metallicities, idx.val.j),
                                           metallicity)
         IN  IF lin.tag # "Ok" THEN lin
             ELSE Ok(Opac_ConstMetalTables(
                        metallicity, self.h_fracs, self.log_temperature, self.log_r,
                        interp(lin.val, index_axis(self.values, 0, idx.val.i),
                                        index_axis(self.values, 0, idx.val.j))))

\* ConstMetalTables::take_at_h_frac
Opac_take_at_h_frac(self, h_frac) ==
    LET idx == idx_lin(self.h_fracs, h_frac) IN
    IF idx.tag # "Ok" THEN idx
    ELSE IF idx.val.tag = "Exact"
    THEN Ok(RTempTable(self.metallicity, h_frac, self.log_temperature, self.log_r,
                       index_axis(self.values, 0, idx.val.i)))
    ELSE LET lin == LinearInterpolator_new(at(self.h_fracs, idx.val.i),
                                           at(self.h_fracs, idx.val.j), h_frac)
         IN  IF lin.tag # "Ok" THEN lin
             ELSE Ok(RTempTable(
                        self.metallicity, h_frac, self.log_temperature, self.log_r,
                        interp(lin.val, index_axis(self.values, 0, idx.val.i),
                                        index_axis(self.values, 0, idx.val.j))))

\* faulty variant, for sensitivity runs: both windows are sliced out of the left grid
Opac_ConstMetalTables_at_leftonly(self, h_frac, log_temperature, log_r) ==
    LET logt_st == linear_stencil(self.log_temperature, log_temperature)
        logr_st == linear_stencil(self.log_r, log_r)
        h_st == linear_stencil(self.h_fracs, h_frac)
    IN  IF logt_st.tag # "Ok" THEN logt_st
        ELSE IF logr_st.tag # "Ok" THEN logr_st
        ELSE IF h_st.tag # "Ok" THEN h_st
        ELSE IF h_st.val.tag = "Exact"
        THEN Ok(lin_interp_2d(logt_st.val, logr_st.val,
                              index_axis(self.values, 0, h_st.val.i)))
        ELSE LET ltable == LinearStencil_sliced(logr_st.val, 1,
                              LinearStencil_sliced(logt_st.val, 0,
                                 index_axis(self.values, 0, h_st.val.i)))
                 table == interp(h_st.val.lin, ltable, ltable)
             IN  Ok(lin_interp_2d(LinearStencil_slice_view(logt_st.val),
                                  LinearStencil_slice_view(logr_st.val), table))

\* ConstMetalTables::at
Opac_ConstMetalTables_at(self, h_frac, log_temperature, log_r) ==
    LET logt_st == linear_stencil(self.log_temperature, log_temperature)
        logr_st == linear_stencil(self.log_r, log_r)
        h_st == linear_stencil(self.h_fracs, h_frac)
    IN  IF logt_st.tag # "Ok" THEN logt_st
        ELSE IF logr_st.tag # "Ok" THEN logr_st
        ELSE IF h_st.tag # "Ok" THEN h_st
        ELSE IF h_st.val.tag = "Exact"
        THEN Ok(lin_interp_2d(logt_st.val, logr_st.val,
                              index_axis(self.values, 0, h_st.val.i)))
        ELSE LET ltable == LinearStencil_sliced(logr_st.val, 1,
                              LinearStencil_sliced(logt_st.val, 0,
                                 index_axis(self.values, 0, h_st.val.i)))
                 rtable == LinearStencil_sliced(logr_st.val, 1,
                              LinearStencil_sliced(logt_st.val, 0,
                                 index_axis(self.values, 0, h_st.val.j)))
                 table == interp(h_st.val.lin, ltable, rtable)
             IN  Ok(lin_interp_2d(LinearStencil_slice_view(logt_st.val),
                                  LinearStencil_slice_view(logr_st.val), table))

\* RTempTable::at
RTempTable_at(self, log_temperature, log_r) ==
    LET logt_st == linear_stencil(self.log_temperature, log_temperature)
        logr_st == linear_stencil(self.log_r, log_r)
    IN  IF logt_st.tag # "Ok" THEN logt_st
        ELSE IF logr_st.tag # "Ok" THEN logr_st
        ELSE Ok(lin_interp_2d(logt_st.val, logr_st.val, self.values))

\* a small table standing for the embedded opacs.bindata: 3 metallicities
\* (unevenly spaced), 3 H fractions, 3 temperatures, 3 values of log R
RawOpacityTable ==
    Opac_AllTables(
        CustomRange(<<R(0), R(3), R(9)>>),
        Range(R(0), R(4), 3), Range(R(0), R(4), 3), Range(R(1), R(3), 3),
        [t \in {<<iz, ix, it, ir>> : iz \in 0..2, ix \in 0..2, it \in 0..2, ir \in 0..2}
            |-> R(t[1] * t[1] * 7 + t[2] * 5 + t[3] * t[4] * 3 + t[4] * t[4] - t[3])])

----------------------------------------------------------------------------
(* eos_tables.rs *)

\* Idx::OutOfRange of the flat enum Idx { Exact, Between, OutOfRange }
Idx_OutOfRange == [tag |-> "OutOfRange", i |-> 0, j |-> 0]

\* Range::find_value: the classification of idx_lin as a flat Idx
Range_find_value(r, value) ==
    Let(Range_idx_lin(r, value), LAMBDA c :
    IF c.tag = "Ok" THEN c.val ELSE Idx_OutOfRange)

\* IsClose for Range
Range_is_close(self, other) ==
    /\ is_close(self.first, other.first)
    /\ is_close(self.step, other.step)
    /\ self.n_values = other.n_values

Eos_AllTables(metallicities, tables) ==
    [kind |-> "AllTables", metallicities |-> metallicities, tables |-> tables]

Eos_ConstMetalTables(h_fracs, tables) ==
    [kind |-> "ConstMetalTables", h_fracs |-> h_fracs, tables |-> tables]

VolumeEnergyTable(log_volume, log_energy, values) ==
    [kind |-> "VolumeEnergyTable", log_volume |-> log_volume,
     log_energy |-> log_energy, values |-> values]

\* faulty variant, for sensitivity runs: the last element is the one taken out
swap_remove_pop(v, index) ==
    [elt |-> v[Len(v)], rest |-> [k \in 1..(Len(v) - 1) |-> v[k]]]

\* Vec::swap_remove: the element at index, whose place the last element takes
swap_remove(v, index) ==
    [elt |-> v[index + 1],
     rest |-> [k \in 1..(Len(v) - 1) |-> IF k = index + 1 THEN v[Len(v)] ELSE v[k]]]

\* faulty variant, for sensitivity runs: the energy axes are not compared
interp_with_unchecked(self, other, lin) ==
    IF ~Range_is_close(self.log_volume, other.log_volume)
    THEN Err("log V index don't match")
    ELSE Ok(VolumeEnergyTable(self.log_volume, self.log_energy,
                              interp(lin, self.values, other.values)))

\* VolumeEnergyTable::interp_with
interp_with(self, other, lin) ==
    IF ~Range_is_close(self.log_volume, other.log_volume)
    THEN Err("log V index don't match")
    ELSE IF ~Range_is_close(self.log_energy, other.log_energy)
    THEN Err("log E index don't match")
    ELSE Ok(VolumeEnergyTable(self.log_volume, self.log_energy,
                              interp(lin, self.values, other.values)))

\* ConstMetalTables::at_h_frac
Eos_at_h_frac(self, h_frac) ==
    Let(Range_find_value(self.h_fracs, h_frac), LAMBDA idx :
    IF idx.tag = "Exact" THEN Ok(self.tables[idx.i + 1])
    ELSE IF idx.tag = "Between"
    THEN Let(LinearInterpolator_new(at(self.h_fracs, idx.i),
                                    at(self.h_fracs, idx.j), h_frac),
             LAMBDA lin :
             LET left == self.tables[idx.i + 1]
                 right == self.tables[idx.j + 1]
             IN  IF lin.tag # "Ok" THEN lin ELSE interp_with(left, right, lin.val))
    ELSE Err("Hydrogen fraction out of range"))

\* ConstMetalTables::take_at_h_frac
Eos_take_at_h_frac(self, h_frac) ==
    Let(Range_find_value(self.h_fracs, h_frac), LAMBDA idx :
    IF idx.tag = "Exact" THEN Ok(swap_remove(self.tables, idx.i).elt)
    ELSE IF idx.tag = "Between"
    THEN Let(swap_remove(self.tables, idx.j), LAMBDA right :
         Let(LinearInterpolator_new(at(self.h_fracs, idx.i),
                                    at(self.h_fracs, idx.j), h_frac),
             LAMBDA lin :
             LET left == swap_remove(right.rest, idx.i)
             IN  IF lin.tag # "Ok" THEN lin
                 ELSE interp_with(left.elt, right.elt, lin.val)))
    ELSE Err("Hydrogen fraction out of range"))

\* faulty variant, for sensitivity runs: the left bucket's axis is kept whole
Eos_take_at_metallicity_wholeaxis(self, metallicity) ==
    Let(Range_find_value(self.metallicities, metallicity), LAMBDA idx :
    IF idx.tag = "Exact" THEN Ok(swap_remove(self.tables, idx.i).elt)
    ELSE IF idx.tag = "Between"
    THEN Let(swap_remove(self.tables, idx.j), LAMBDA r_tables :
         Let(swap_remove(r_tables.rest, idx.i), LAMBDA l_tables :
         Let(LinearInterpolator_new(at(self.metallicities, idx.i),
                                    at(self.metallicities, idx.j), metallicity),
             LAMBDA lin :
         Let(Some(l_tables.elt.h_fracs),
             LAMBDA h_fracs :
             IF lin.tag # "Ok" THEN lin
             ELSE IF ~h_fracs.some THEN Err("Hydrogen fractions do not overlap")
             ELSE Let([k \in 1..h_fracs.val.n_values |->
                         Let(Eos_at_h_frac(l_tables.elt, at(h_fracs.val, k - 1)),
                             LAMBDA left :
                         Let(Eos_at_h_frac(r_tables.elt, at(h_fracs.val, k - 1)),
                             LAMBDA right :
                             IF left.tag # "Ok" THEN left
                             ELSE IF right.tag # "Ok" THEN right
                             ELSE interp_with(left.val, right.val, lin.val)))],
                      LAMBDA tables :
                  Let({k \in DOMAIN tables : tables[k].tag # "Ok"}, LAMBDA failed :
                      IF failed # {}
                      THEN tables[CHOOSE k \in failed : \A m \in failed : k <= m]
                      ELSE Ok(Eos_ConstMetalTables(
                                h_fracs.val,
                                [k \in DOMAIN tables |-> tables[k].val]))))))))
    ELSE Err("metallicity out of range"))

\* AllTables::take_at_metallicity; `collect` stops at the first Err
Eos_take_at_metallicity(self, metallicity) ==
    Let(Range_find_value(self.metallicities, metallicity), LAMBDA idx :
    IF idx.tag = "Exact" THEN Ok(swap_remove(self.tables, idx.i).elt)
    ELSE IF idx.tag = "Between"
    THEN Let(swap_remove(self.tables, idx.j), LAMBDA r_tables :
         Let(swap_remove(r_tables.rest, idx.i), LAMBDA l_tables :
         Let(LinearInterpolator_new(at(self.metallicities, idx.i),
                                    at(self.metallicities, idx.j), metallicity),
             LAMBDA lin :
         Let(Range_subrange_in(l_tables.elt.h_fracs, r_tables.elt.h_fracs),
             LAMBDA h_fracs :
             IF lin.tag # "Ok" THEN lin
             ELSE IF ~h_fracs.some THEN Err("Hydrogen fractions do not overlap")
             ELSE Let([k \in 1..h_fracs.val.n_values |->
                         Let(Eos_at_h_frac(l_tables.elt, at(h_fracs.val, k - 1)),
                             LAMBDA left :
                         Let(Eos_at_h_frac(r_tables.elt, at(h_fracs.val, k - 1)),
                             LAMBDA right :
                             IF left.tag # "Ok" THEN left
                             ELSE IF right.tag # "Ok" THEN right
                             ELSE interp_with(left.val, right.val, lin.val)))],
                      LAMBDA tables :
                  Let({k \in DOMAIN tables : tables[k].tag # "Ok"}, LAMBDA failed :
                      IF failed # {}
                      THEN tables[CHOOSE k \in failed : \A m \in failed : k <= m]
                      ELSE Ok(Eos_ConstMetalTables(
                                h_fracs.val,
                                [k \in DOMAIN tables |-> tables[k].val]))))))))
    ELSE Err("metallicity out of range"))

\* VolumeEnergyTable::at, given the logarithms energy.log10() and
\* volume.log10(); cubic_spline is low_level_spline.  An Exact(i) has i = j.
VolumeEnergyTable_at(self, log_energy, log_volume, var) ==
    LET e == Range_find_value(self.log_energy, log_energy)
        v == Range_find_value(self.log_volume, log_volume)
        loge(i) == <<at(self.log_energy, i - 1), at(self.log_energy, i),
                     at(self.log_energy, i + 1), at(self.log_energy, i + 2)>>
        logv(i) == <<at(self.log_volume, i - 1), at(self.log_volume, i),
                     at(self.log_volume, i + 1), at(self.log_volume, i + 2)>>
        along_e(i_e, iv) == <<self.values[<<i_e - 1, iv, var>>], self.values[<<i_e, iv, var>>],
                              self.values[<<i_e + 1, iv, var>>],
                              self.values[<<i_e + 2, iv, var>>]>>
        along_v(i_e, iv) == <<self.values[<<i_e, iv - 1, var>>], self.values[<<i_e, iv, var>>],
                              self.values[<<i_e, iv + 1, var>>],
                              self.values[<<i_e, iv + 2, var>>]>>
    IN  IF e.tag = "OutOfRange" \/ v.tag = "OutOfRange"
        THEN Err("energy or volume out of range")
        ELSE IF e.i = 0 THEN Err("energy in lower values")
        ELSE IF v.i = 0 THEN Err("temperature in lower values")
        ELSE IF e.j = self.log_energy.n_values - 1 THEN Err("energy in higher values")
        ELSE IF v.j = self.log_volume.n_values - 1 THEN Err("temperature in higher values")
        ELSE IF e.tag = "Exact" /\ v.tag = "Exact"
        THEN Ok(self.values[<<e.i, v.i, var>>])
        ELSE IF e.tag = "Exact"
        THEN Ok(low_level_spline(logv(v.i), along_v(e.i, v.i), log_volume))
        ELSE IF v.tag = "Exact"
        THEN Ok(low_level_spline(loge(e.i), along_e(e.i, v.i), log_energy))
        ELSE LET vals == [k \in 1..4 |->
                    low_level_spline(loge(e.i), along_e(e.i, v.i - 2 + k), log_energy)]
             IN  Ok(low_level_spline(logv(v.i), vals, log_volume))

\* the indices VolumeEnergyTable::at reads on the energy and volume axes
\* (axis points and values alike) in the arm it takes; none in an Err arm
VolumeEnergyTable_at_reads(self, log_energy, log_volume) ==
    Let(Range_find_value(self.log_energy, log_energy), LAMBDA e :
    Let(Range_find_value(self.log_volume, log_volume), LAMBDA v :
        IF \/ e.tag = "OutOfRange" \/ v.tag = "OutOfRange"
           \/ e.i = 0 \/ v.i = 0
           \/ e.j = self.log_energy.n_values - 1
           \/ v.j = self.log_volume.n_values - 1
        THEN [e |-> {}, v |-> {}]
        ELSE [e |-> IF e.tag = "Exact" THEN {e.i} ELSE (e.i - 1)..(e.i + 2),
              v |-> IF v.tag = "Exact" THEN {v.i} ELSE (v.i - 1)..(v.i + 2)]))

\* ConstMetalTables::at(h_frac, log_energy, log_volume, var), the combined
\* query CstMetalState::compute makes: an exact H fraction delegates to the
\* leaf table; between two H fractions the spline windows are computed once
\* on the left table's axes, the 4 x 4 windows of both neighbouring grids are
\* sliced out and blended at h_frac, and cubic_spline_2d is applied to the
\* blended window
Eos_ConstMetalTables_at(self, h_frac, log_energy, log_volume, var) ==
    LET h == Range_find_value(self.h_fracs, h_frac) IN
    IF h.tag = "OutOfRange" THEN Err(OutOfBoundsError(h_frac))
    ELSE IF h.tag = "Exact"
    THEN VolumeEnergyTable_at(self.tables[h.i + 1], log_energy, log_volume, var)
    ELSE LET left == self.tables[h.i + 1]
             right == self.tables[h.j + 1]
             e_st == Range_spline_stencil(left.log_energy, log_energy)
             v_st == Range_spline_stencil(left.log_volume, log_volume)
             lin == LinearInterpolator_new(at(self.h_fracs, h.i),
                                           at(self.h_fracs, h.j), h_frac)
         IN  IF e_st.tag # "Ok" THEN e_st
             ELSE IF v_st.tag # "Ok" THEN v_st
             ELSE IF lin.tag # "Ok" THEN lin
             ELSE LET ltable == SplineStencil_sliced(v_st.val, 1,
                                   SplineStencil_sliced(e_st.val, 0,
                                      index_axis(left.values, 2, var)))
                      rtable == SplineStencil_sliced(v_st.val, 1,
                                   SplineStencil_sliced(e_st.val, 0,
                                      index_axis(right.values, 2, var)))
                      table == interp(lin.val, ltable, rtable)
                  IN  Ok(cubic_spline_2d(SplineStencil_slice_view(e_st.val),
                                         SplineStencil_slice_view(v_st.val), table))

----------------------------------------------------------------------------
(* state.rs.  Densities, energies and fractions are exact rationals in
   natural units; new and set_state make no closeness test. *)

NoState == [kind |-> "none"]

\* 10^k as a rational
Pow10(k) == IF k >= 0 THEN R(10 ^ k) ELSE Norm(1, 10 ^ (0 - k))

\* f64::log10, on the powers of ten the densities and energies are made of
log10(x) == R(CHOOSE k \in (-3)..6 : x = Pow10(k))

\* ArrayBase::shape: the extents, which the index set determines
arr_shape(arr) == DOMAIN arr

\* ArrayBase::mapv
mapv(arr, f(_)) == [t \in DOMAIN arr |-> f(arr[t])]

\* faulty variant, for sensitivity runs: the two logarithms are exchanged in log_volume
from_de_to_logdve_exchanged(density, energy) ==
    LET log_density == mapv(density, log10)
        log_energy == mapv(energy, log10)
        log_volume == [t \in DOMAIN log_energy |->
                          RSub(RAdd(R(20), log_energy[t]),
                               RMul(Norm(7, 10), log_density[t]))]
    IN  [log_density |-> log_density, log_volume |-> log_volume,
         log_energy |-> log_energy]

\* from_de_to_logdve
from_de_to_logdve(density, energy) ==
    LET log_density == mapv(density, log10)
        log_energy == mapv(energy, log10)
        log_volume == [t \in DOMAIN log_energy |->
                          RSub(RAdd(R(20), log_density[t]),
                               RMul(Norm(7, 10), log_energy[t]))]
    IN  [log_density |-> log_density, log_volume |-> log_volume,
         log_energy |-> log_energy]

\* Arc<ConstMetalTables> / Arc<VolumeEnergyTable>: the shared handle
Arc(ptr, metallicity) == [kind |-> "Arc", ptr |-> ptr, metallicity |-> metallicity]

\* ConstMetalTables::metallicity
Eos_metallicity(table) == table.metallicity

CstCompoState(log_density, log_volume, log_energy, table) ==
    [kind |-> "CstCompoState", log_density |-> log_density,
     log_volume |-> log_volume, log_energy |-> log_energy, table |-> table]

CstMetalState(h_frac, log_density, log_volume, log_energy, table) ==
    [kind |-> "CstMetalState", h_frac |-> h_frac, log_density |-> log_density,
     log_volume |-> log_volume, log_energy |-> log_energy, table |-> table]

\* CstCompoState::new
CstCompoState_new(table, density, energy) ==
    IF arr_shape(density) # arr_shape(energy)
    THEN Panic("assertion failed: density.shape() == energy.shape()")
    ELSE LET l == from_de_to_logdve(density, energy) IN
         Ok(CstCompoState(l.log_density, l.log_volume, l.log_energy, table))

\* CstMetalState::new
CstMetalState_new(table, he_frac, density, energy) ==
    IF arr_shape(he_frac) # arr_shape(density)
    THEN Panic("assertion failed: he_frac.shape() == density.shape()")
    ELSE IF arr_shape(he_frac) # arr_shape(energy)
    THEN Panic("assertion failed: he_frac.shape() == energy.shape()")
    ELSE LET h_frac == [t \in DOMAIN he_frac |->
                           RSub(RSub(R(1), he_frac[t]), Eos_metallicity(table))]
             l == from_de_to_logdve(density, energy)
         IN  Ok(CstMetalState(h_frac, l.log_density, l.log_volume, l.log_energy, table))

\* faulty variant, for sensitivity runs: h_frac is not reassigned
CstMetalState_set_state_oldh(self, he_frac, density, energy) ==
    IF arr_shape(he_frac) # arr_shape(density)
    THEN [res |-> Panic("assertion failed: he_frac.shape() == density.shape()"),
          self |-> self]
    ELSE IF arr_shape(he_frac) # arr_shape(energy)
    THEN [res |-> Panic("assertion failed: he_frac.shape() == energy.shape()"),
          self |-> self]
    ELSE LET l == from_de_to_logdve(density, energy)
         IN  [res |-> Ok(<<>>),
              self |-> [self EXCEPT !.log_density = l.log_density,
                                    !.log_volume = l.log_volume,
                                    !.log_energy = l.log_energy]]

\* faulty variant, for sensitivity runs: log_density is not reassigned
CstMetalState_set_state_stale(self, he_frac, density, energy) ==
    IF arr_shape(he_frac) # arr_shape(density)
    THEN [res |-> Panic("assertion failed: he_frac.shape() == density.shape()"),
          self |-> self]
    ELSE IF arr_shape(he_frac) # arr_shape(energy)
    THEN [res |-> Panic("assertion failed: he_frac.shape() == energy.shape()"),
          self |-> self]
    ELSE LET l == from_de_to_logdve(density, energy)
             h_frac == [t \in DOMAIN he_frac |->
                           RSub(RSub(R(1), he_frac[t]), Eos_metallicity(self.table))]
         IN  [res |-> Ok(<<>>),
              self |-> [self EXCEPT !.h_frac = h_frac,
                                    !.log_volume = l.log_volume,
                                    !.log_energy = l.log_energy]]

\* faulty variant, for sensitivity runs: h_frac is assigned before the shapes are compared
CstMetalState_set_state_latecheck(self, he_frac, density, energy) ==
    LET h_frac == [t \in DOMAIN he_frac |->
                      RSub(RSub(R(1), he_frac[t]), Eos_metallicity(self.table))]
        early == [self EXCEPT !.h_frac = h_frac]
    IN  IF arr_shape(he_frac) # arr_shape(density)
        THEN [res |-> Panic("assertion failed: he_frac.shape() == density.shape()"),
              self |-> early]
        ELSE IF arr_shape(he_frac) # arr_shape(energy)
        THEN [res |-> Panic("assertion failed: he_frac.shape() == energy.shape()"),
              self |-> early]
        ELSE LET l == from_de_to_logdve(density, energy) IN
             [res |-> Ok(<<>>),
              self |-> [early EXCEPT !.log_density = l.log_density,
                                     !.log_volume = l.log_volume,
                                     !.log_energy = l.log_energy]]

\* CstMetalState::set_state: the result, and self after the call
CstMetalState_set_state(self, he_frac, density, energy) ==
    IF arr_shape(he_frac) # arr_shape(density)
    THEN [res |-> Panic("assertion failed: he_frac.shape() == density.shape()"),
          self |-> self]
    ELSE IF arr_shape(he_frac) # arr_shape(energy)
    THEN [res |-> Panic("assertion failed: he_frac.shape() == energy.shape()"),
          self |-> self]
    ELSE LET l == from_de_to_logdve(density, energy)
             h_frac == [t \in DOMAIN he_frac |->
                           RSub(RSub(R(1), he_frac[t]), Eos_metallicity(self.table))]
         IN  [res |-> Ok(<<>>),
              self |-> [self EXCEPT !.h_frac = h_frac,
                                    !.log_density = l.log_density,
                                    !.log_volume = l.log_volume,
                                    !.log_energy = l.log_energy]]

----------------------------------------------------------------------------
(* opacity.rs.  Of a state only the composition matters here: it is read
   through the table the state holds. *)

\* Arc<VolumeEnergyTable>: the handle of a table of one composition
ArcLeaf(ptr, metallicity, h_frac) ==
    [kind |-> "Arc", ptr |-> ptr, metallicity |-> metallicity, h_frac |-> h_frac]

\* VolumeEnergyTable::h_frac
Eos_h_frac(table) == table.h_frac

\* CstCompoState::metallicity, CstMetalState::metallicity
State_metallicity(self) == Eos_metallicity(self.table)

\* CstCompoState::h_frac
CstCompoState_h_frac(self) == Eos_h_frac(self.table)

\* CstCompoOpacity::with_table
CstCompoOpacity(table, st) ==
    [kind |-> "CstCompoOpacity", state |-> st, table |-> table]

\* CstMetalOpacity::with_table
CstMetalOpacity(table, st) ==
    [kind |-> "CstMetalOpacity", state |-> st, table |-> table]

\* CstCompoOpacity::new
CstCompoOpacity_new(st) ==
    Let(Opac_take_at_metallicity(RawOpacityTable, State_metallicity(st)),
        LAMBDA cm :
        IF cm.tag # "Ok" THEN Panic("metallicity is in range")
        ELSE Let(Opac_take_at_h_frac(cm.val, CstCompoState_h_frac(st)),
                 LAMBDA table :
                 IF table.tag # "Ok" THEN Panic("He fraction is in range")
                 ELSE Ok(CstCompoOpacity(table.val, st))))

\* CstMetalOpacity::new
CstMetalOpacity_new(st) ==
    Let(Opac_take_at_metallicity(RawOpacityTable, State_metallicity(st)),
        LAMBDA cm :
        IF cm.tag # "Ok" THEN Panic("metallicity is in range")
        ELSE Ok(CstMetalOpacity(cm.val, st)))

\* CstCompoOpacity::set_state: the result, and self after the call; a new
\* that panics unwinds before *self is assigned
CstCompoOpacity_set_state(self, st) ==
    IF /\ is_close(State_metallicity(self.state), State_metallicity(st))
       /\ is_close(CstCompoState_h_frac(self.state), CstCompoState_h_frac(st))
    THEN [res |-> Ok(<<>>), self |-> [self EXCEPT !.state = st]]
    ELSE Let(CstCompoOpacity_new(st), LAMBDA fresh :
             IF fresh.tag = "Ok" THEN [res |-> Ok(<<>>), self |-> fresh.val]
             ELSE [res |-> fresh, self |-> self])

\* CstMetalOpacity::set_state
CstMetalOpacity_set_state(self, st) ==
    IF is_close(State_metallicity(self.state), State_metallicity(st))
    THEN [res |-> Ok(<<>>), self |-> [self EXCEPT !.state = st]]
    ELSE Let(CstMetalOpacity_new(st), LAMBDA fresh :
             IF fresh.tag = "Ok" THEN [res |-> Ok(<<>>), self |-> fresh.val]
             ELSE [res |-> fresh, self |-> self])

\* The tables are in units in which the closeness tolerance is one unit; a
\* coordinate of a state, in natural units, is 100 of them.  Every
\* coordinate below is on a grid point or at least 2 units from every grid
\* point, so that two of them are close exactly when they are equal.
TableUnits(x) == RMul(x, R(100))

\* the axes of the tables states are built against
StateLogVolume == Range(R(1800), R(100), 6)
StateLogEnergy == Range(R(-50), R(100), 6)
StateHFracs == Range(R(50), R(20), 3)

\* a table on the given axes: values[i_e, i_v, var]
StateLeaf(seed) ==
    VolumeEnergyTable(StateLogVolume, StateLogEnergy,
        [t \in {<<ie, iv, ivar>> : ie \in 0..(StateLogEnergy.n_values - 1),
                                    iv \in 0..(StateLogVolume.n_values - 1),
                                    ivar \in 0..(NVars - 1)}
            |-> R(seed * seed + 3 * seed * t[1] + t[1] * t[1] * t[2] - 7 * t[2]
                  + t[3] * (t[1] + 2 * t[2] * t[2] - seed))])

\* Deref for Arc<VolumeEnergyTable>: the table the handle points to
Arc_VolumeEnergyTable(table) == StateLeaf(table.ptr + 2)

\* Deref for Arc<ConstMetalTables>
Arc_ConstMetalTables(table) ==
    Eos_ConstMetalTables(StateHFracs,
        <<StateLeaf(3 * table.ptr), StateLeaf(3 * table.ptr + 1),
          StateLeaf(3 * table.ptr + 4)>>)

\* faulty variant, for sensitivity runs: the failing elements are left out
expect_some(vals) ==
    Ok([t \in {u \in DOMAIN vals : vals[u].tag = "Ok"} |-> vals[t].val])

\* Result::expect("out of table") on every element of a map_collect: the
\* first failing element unwinds out of the whole call
expect_all(vals) ==
    IF \E t \in DOMAIN vals : vals[t].tag # "Ok"
    THEN Panic("out of table")
    ELSE Ok([t \in DOMAIN vals |-> vals[t].val])

\* Zip::and: every producer added to a Zip must have the dimension of the first
Zip_and(first, part) ==
    IF arr_shape(part) = arr_shape(first)
    THEN Ok(<<>>)
    ELSE Panic("assertion failed: part.equal_dim(dimension)")

\* the queries of the elements of a CstCompoState
CompoQueries(self, var) ==
    [t \in DOMAIN self.log_volume |->
        VolumeEnergyTable_at(Arc_VolumeEnergyTable(self.table),
                             TableUnits(self.log_energy[t]),
                             TableUnits(self.log_volume[t]), var)]

\* the queries of the elements of a CstMetalState
MetalQueries(self, var) ==
    [t \in DOMAIN self.log_volume |->
        Eos_ConstMetalTables_at(Arc_ConstMetalTables(self.table),
                                TableUnits(self.h_frac[t]),
                                TableUnits(self.log_energy[t]),
                                TableUnits(self.log_volume[t]), var)]

\* faulty variant, for sensitivity runs: the result is kept in log_volume
CstCompoState_compute_inplace(self, var) ==
    IF Zip_and(self.log_volume, self.log_energy).tag # "Ok"
    THEN [res |-> Zip_and(self.log_volume, self.log_energy), self |-> self]
    ELSE Let(expect_all(CompoQueries(self, var)),
             LAMBDA res : [res |-> res,
                           self |-> IF res.tag = "Ok"
                                    THEN [self EXCEPT !.log_volume = res.val]
                                    ELSE self])

\* CstCompoState::compute(&self, var): the result, and self after the call
CstCompoState_compute(self, var) ==
    IF Zip_and(self.log_volume, self.log_energy).tag # "Ok"
    THEN [res |-> Zip_and(self.log_volume, self.log_energy), self |-> self]
    ELSE [res |-> expect_all(CompoQueries(self, var)), self |-> self]

\* faulty variant, for sensitivity runs: the result is kept in log_volume
CstMetalState_compute_inplace(self, var) ==
    IF Zip_and(self.log_volume, self.log_energy).tag # "Ok"
    THEN [res |-> Zip_and(self.log_volume, self.log_energy), self |-> self]
    ELSE IF Zip_and(self.log_volume, self.h_frac).tag # "Ok"
    THEN [res |-> Zip_and(self.log_volume, self.h_frac), self |-> self]
    ELSE Let(expect_all(MetalQueries(self, var)),
             LAMBDA res : [res |-> res,
                           self |-> IF res.tag = "Ok"
                                    THEN [self EXCEPT !.log_volume = res.val]
                                    ELSE self])

\* CstMetalState::compute(&self, var): the result, and self after the call
CstMetalState_compute(self, var) ==
    IF Zip_and(self.log_volume, self.log_energy).tag # "Ok"
    THEN [res |-> Zip_and(self.log_volume, self.log_energy), self |-> self]
    ELSE IF Zip_and(self.log_volume, self.h_frac).tag # "Ok"
    THEN [res |-> Zip_and(self.log_volume, self.h_frac), self |-> self]
    ELSE [res |-> expect_all(MetalQueries(self, var)), self |-> self]

\* CstCompoOpacity::compute(&self); StateVar::LogTemperature is the
\* variable 1 of the tables here
CstCompoOpacity_compute(self) ==
    Let(CstCompoState_compute(self.state, 1).res, LAMBDA logt :
        IF logt.tag # "Ok" THEN logt
        ELSE IF Zip_and(logt.val, self.state.log_density).tag # "Ok"
        THEN Zip_and(logt.val, self.state.log_density)
        ELSE expect_all([t \in DOMAIN logt.val |->
                RTempTable_at(self.table, logt.val[t],
                    RSub(RAdd(self.state.log_density[t], R(18)),
                         RMul(R(3), logt.val[t])))]))

(* The calls made on axes *)

\* the f64 values slices are made of
SliceVals == {R(k) : k \in 0..MaxVal}

Slices == UNION {[1..n -> SliceVals] : n \in 0..MaxLen}

\* the values queried: every half unit from below the axis to above it
QueryVals == {Norm(k, 2) : k \in (-4)..(2 * MaxVal + 4)}

Call(op, arg, res) == [op |-> op, arg |-> arg, res |-> res]

Built == call.op \in {"from_slice", "new"} /\ call.res.tag = "Ok"

NoTable == [kind |-> "none"]

FromSlice ==
    /\ call.op = "none"
    /\ \E slc \in Slices :
         LET res == Range_from_slice(slc) IN
         /\ call' = Call("from_slice", slc, res)
         /\ axis' = IF res.tag = "Ok" THEN res.val ELSE axis
    /\ UNCHANGED <<opac, linear, fortVars, eosVars>>

CustomNew ==
    /\ call.op = "none"
    /\ \E values \in Slices :
         LET res == CustomRange_new(values) IN
         /\ call' = Call("new", values, res)
         /\ axis' = IF res.tag = "Ok" THEN res.val ELSE axis
    /\ UNCHANGED <<opac, linear, fortVars, eosVars>>

Get ==
    /\ Built
    /\ \E index \in 0..(MaxLen + 1) :
         call' = Call("get", index, get(axis, index))
    /\ UNCHANGED <<axis, opac, linear, fortVars, eosVars>>

IdxLin ==
    /\ Built
    /\ \E value \in QueryVals :
         call' = Call("idx_lin", value, idx_lin(axis, value))
    /\ UNCHANGED <<axis, opac, linear, fortVars, eosVars>>

LinearStencil ==
    /\ Built
    /\ \E value \in QueryVals :
         call' = Call("linear_stencil", value, linear_stencil(axis, value))
    /\ UNCHANGED <<axis, opac, linear, fortVars, eosVars>>

SplineStencil ==
    /\ Built
    /\ axis.kind = "Range"
    /\ \E value \in QueryVals :
         call' = Call("spline_stencil", value, Range_spline_stencil(axis, value))
    /\ UNCHANGED <<axis, opac, linear, fortVars, eosVars>>

\* the values opacity tables are queried at: below, on, near, between and
\* above the grid points of the axes of RawOpacityTable
OpacQueryVals ==
    {R(-2), Norm(-1, 2), R(0), Norm(3, 2), R(3), R(6), Norm(17, 2), R(9), R(11)}

\* AllTables::default
OpacDefault ==
    /\ call.op = "none"
    /\ opac' = RawOpacityTable
    /\ call' = Call("default", <<>>, Ok(<<>>))
    /\ UNCHANGED <<axis, linear, fortVars, eosVars>>

\* AllTables::take_at_metallicity consumes self
OpacTakeAtMetallicity ==
    /\ opac.kind = "AllTables"
    /\ \E metallicity \in OpacQueryVals :
         LET res == Opac_take_at_metallicity(opac, metallicity) IN
         /\ call' = Call("take_at_metallicity", metallicity, res)
         /\ opac' = IF res.tag = "Ok" THEN res.val ELSE NoTable
    /\ UNCHANGED <<axis, linear, fortVars, eosVars>>

\* ConstMetalTables::take_at_h_frac consumes self
OpacTakeAtHFrac ==
    /\ opac.kind = "ConstMetalTables"
    /\ call.op = "take_at_metallicity"
    /\ \E h_frac \in OpacQueryVals :
         LET res == Opac_take_at_h_frac(opac, h_frac) IN
         /\ call' = Call("take_at_h_frac", h_frac, res)
         /\ opac' = IF res.tag = "Ok" THEN res.val ELSE NoTable
    /\ UNCHANGED <<axis, linear, fortVars, eosVars>>

\* ConstMetalTables::at borrows self
OpacConstMetalAt ==
    /\ opac.kind = "ConstMetalTables"
    /\ call.op = "take_at_metallicity"
    /\ \E h_frac \in OpacQueryVals, log_temperature \in OpacQueryVals,
          log_r \in OpacQueryVals :
         call' = Call("ConstMetalTables_at", <<h_frac, log_temperature, log_r>>,
                      Opac_ConstMetalTables_at(opac, h_frac, log_temperature, log_r))
    /\ UNCHANGED <<axis, opac, linear, fortVars, eosVars>>

\* RTempTable::at borrows self
OpacRTempAt ==
    /\ opac.kind = "RTempTable"
    /\ call.op = "take_at_h_frac"
    /\ \E log_temperature \in OpacQueryVals, log_r \in OpacQueryVals :
         call' = Call("RTempTable_at", <<log_temperature, log_r>>,
                      RTempTable_at(opac, log_temperature, log_r))
    /\ UNCHANGED <<axis, opac, linear, fortVars, eosVars>>

InitAxis ==
    /\ axis = NoAxis
    /\ opac = NoTable
    /\ linear = <<>>
    /\ call = [op |-> "none"]
    /\ eos = NoTable
    /\ state = [kind |-> "none"]
    /\ FortIdle

NextAxis ==
    \/ FromSlice \/ CustomNew \/ Get \/ IdxLin \/ LinearStencil \/ SplineStencil
    \/ OpacDefault \/ OpacTakeAtMetallicity \/ OpacTakeAtHFrac
    \/ OpacConstMetalAt \/ OpacRTempAt

SpecAxis == InitAxis /\ [][NextAxis]_vars

----------------------------------------------------------------------------
(* The calls made on the interpolation primitives *)

\* anchors and query points handed to LinearInterpolator::new
AnchorVals == {R(0), R(1), R(2), Norm(5, 2), R(4)}

\* scalars blended
BlendVals == {R(-3), R(0), R(2), Norm(7, 2)}

\* the index sets of the arrays blended: one of 2 elements, one of 2 x 2
Shapes == {{<<0>>, <<1>>}, {<<0, 0>>, <<0, 1>>, <<1, 0>>, <<1, 1>>}}

\* the arrays of one shape
ArraysOf(shape) ==
    IF Cardinality(shape) = 2 THEN [shape -> {R(-3), R(2), Norm(7, 2)}]
                              ELSE [shape -> {R(0), R(5)}]

LinNew ==
    /\ call.op = "none"
    /\ \E left_anchor \in AnchorVals, right_anchor \in AnchorVals, at_ \in AnchorVals :
         LET res == LinearInterpolator_new(left_anchor, right_anchor, at_) IN
         /\ call' = Call("LinearInterpolator_new", <<left_anchor, right_anchor, at_>>, res)
         /\ linear' = IF res.tag = "Ok" THEN <<res.val>> ELSE <<>>
    /\ UNCHANGED <<axis, opac, fortVars, eosVars>>

InterpScalar ==
    /\ call.op = "LinearInterpolator_new" /\ linear # <<>>
    /\ \E left \in BlendVals, right \in BlendVals :
         call' = Call("interp_scalar", <<left, right>>, interp_scalar(linear[1], left, right))
    /\ UNCHANGED <<axis, opac, linear, fortVars, eosVars>>

Interp ==
    /\ call.op = "LinearInterpolator_new" /\ linear # <<>>
    /\ \E shape \in Shapes :
         \E left \in ArraysOf(shape), right \in ArraysOf(shape) :
            call' = Call("interp", <<left, right>>, interp(linear[1], left, right))
    /\ UNCHANGED <<axis, opac, linear, fortVars, eosVars>>

\* tabulated abscissas of 5 points: evenly spaced ones, as the windows of a
\* Range are, and unevenly spaced ones
XData ==
    {<<R(0), R(2), R(4), R(6), R(8)>>, <<R(-1), R(0), R(1), R(2), R(3)>>,
     <<R(0), R(1), R(3), R(4), R(8)>>, <<R(0), R(2), R(4), R(7), R(8)>>}

\* f(x) = a x^2 + b x + c
Poly(a, b, c, x) == RAdd(RAdd(RMul(R(a), RMul(x, x)), RMul(R(b), x)), R(c))

QuadCoefs == {-1, 0, 3}
LinCoefs == {-2, 0, 5}

\* tabulated ordinates: polynomials of degree <= 2 sampled on xs, and data
\* that follow no polynomial of low degree
YData(xs) ==
    {[k \in 1..5 |-> Poly(a, b, c, xs[k])] :
        a \in QuadCoefs, b \in LinCoefs, c \in LinCoefs}
    \cup [1..5 -> {R(-1), R(2)}]

\* query points: every half unit
AtVals == {Norm(k, 2) : k \in (-2)..16}

\* the 4-point window of a 5-point table that starts at index w (0 or 1)
Window(s, w) == <<s[w + 1], s[w + 2], s[w + 3], s[w + 4]>>

\* SplineStencil::apply_to on a window of tabulated data: low_level_spline
LowLevelSpline ==
    /\ call.op = "none"
    /\ \E xs \in XData, w \in {0, 1} :
         \E ys \in YData(xs), at_ \in AtVals :
            /\ RLe(xs[w + 1], at_) /\ RLe(at_, xs[w + 4])
            /\ call' = Call("low_level_spline",
                            [xs |-> xs, ys |-> ys, w |-> w, at |-> at_],
                            low_level_spline(Window(xs, w), Window(ys, w), at_))
    /\ UNCHANGED <<axis, opac, linear, fortVars, eosVars>>

InitInterp == InitAxis

NextInterp == LinNew \/ InterpScalar \/ Interp \/ LowLevelSpline

SpecInterp == InitInterp /\ [][NextInterp]_vars

----------------------------------------------------------------------------
(* The calls made on the two-dimensional interpolations *)

\* the axes of the grids, in units of 1e-12: the steps are well above the
\* tolerance, so that a quarter of an interval is off the grid
GridX == Range(R(0), R(8), GridLen)
GridY == Range(R(1), R(16), GridLen)

\* the values looked up on an axis: its grid points and the points at one
\* quarter, one half and three quarters of every interval
GridQueryVals(ax) ==
    {RAdd(ax.first, RMul(Norm(k, 4), ax.step)) : k \in 0..(4 * (ax.n_values - 1))}

\* the stencils linear_stencil builds on an axis
LinearStencils(ax) ==
    {linear_stencil(ax, v).val : v \in GridQueryVals(ax)}

\* the spline stencils on an axis: the windows spline_stencil builds, and
\* SplineStencil::Exact at every grid point
SplineStencils(ax) ==
    {SplineStencil_Exact(i, at(ax, i)) : i \in 0..(ax.n_values - 1)}
    \cup {Range_spline_stencil(ax, v).val :
            v \in {u \in GridQueryVals(ax) : Range_spline_stencil(ax, u).tag = "Ok"}}

\* the index tuples of a grid
GridIdx == {<<i, j>> : i \in 0..(GridLen - 1), j \in 0..(GridLen - 1)}

\* tabulated grids, none of them symmetric in its two indices
ZData ==
    {[t \in GridIdx |-> R(7 * t[1] * t[1] + 3 * t[1] * t[2] - t[2] + t[2] * t[2] * t[2])],
     [t \in GridIdx |-> R(t[1] * t[1] * t[1] - 2 * t[2])],
     [t \in GridIdx |-> R((7 * t[1] + 3 * t[2] * t[2] + t[1] * t[2]) % 5)]}

LinInterp2d ==
    /\ call.op = "none"
    /\ \E x_st \in LinearStencils(GridX), y_st \in LinearStencils(GridY), z \in ZData :
         call' = Call("lin_interp_2d", [x_st |-> x_st, y_st |-> y_st, z |-> z],
                      lin_interp_2d(x_st, y_st, z))
    /\ UNCHANGED <<axis, opac, linear, fortVars, eosVars>>

CubicSpline2d ==
    /\ call.op = "none"
    /\ \E x_st \in SplineStencils(GridX), y_st \in SplineStencils(GridY), z \in ZData :
         call' = Call("cubic_spline_2d", [x_st |-> x_st, y_st |-> y_st, z |-> z],
                      cubic_spline_2d(x_st, y_st, z))
    /\ UNCHANGED <<axis, opac, linear, fortVars, eosVars>>

InitGrid == InitAxis

NextGrid == LinInterp2d \/ CubicSpline2d

SpecGrid == InitGrid /\ [][NextGrid]_vars

----------------------------------------------------------------------------
(* The calls made on the EOS tables *)

\* uniform axes, in units of 1e-12: steps above, at and below the tolerance
RangeData ==
    {Range(R(f), s, n) : f \in {0, 3, 8}, s \in {Norm(1, 2), R(1), R(4), R(5)},
                         n \in 2..MaxLen}

SubrangeIn ==
    /\ call.op = "none"
    /\ \E self \in RangeData, other \in RangeData :
         call' = Call("subrange_in", [self |-> self, other |-> other],
                      Range_subrange_in(self, other))
    /\ UNCHANGED <<axis, opac, linear, eos, state, fortVars>>

\* the index tuples [i_e, i_v, var] of the values of an EOS table
EosIdx ==
    {<<ie, iv, ivar>> : ie \in 0..(EosLen - 1), iv \in 0..(EosLen - 1),
                        ivar \in 0..(NVars - 1)}

\* the axes every table of a registry shares, in units of 1e-12
EosLogVolume == Range(R(0), R(8), EosLen)
EosLogEnergy == Range(R(2), R(16), EosLen)

\* a leaf table standing for one embedded output_DE_z*x*.bindata
EosLeaf(seed) ==
    VolumeEnergyTable(EosLogVolume, EosLogEnergy,
        [t \in EosIdx |->
            R(seed * seed + 3 * seed * t[1] + t[1] * t[1] * t[2] - 7 * t[2]
              + t[3] * (t[1] + 2 * t[2] * t[2] - seed))])

\* small registries standing for RAW_TABLES.  The first has its shape: 3
\* metallicities, the H fractions of the first bucket 5 times as far apart
\* as those of the other two, which share one axis.  In the second the H
\* fraction axes of neighbouring buckets overlap in part, on and off the
\* grid points.
RawEosTables ==
    {Eos_AllTables(Range(R(0), R(20), 3),
        <<Eos_ConstMetalTables(Range(R(0), R(40), 3), <<EosLeaf(1), EosLeaf(2), EosLeaf(3)>>),
          Eos_ConstMetalTables(Range(R(0), R(8), 3), <<EosLeaf(4), EosLeaf(5), EosLeaf(6)>>),
          Eos_ConstMetalTables(Range(R(0), R(8), 3), <<EosLeaf(7), EosLeaf(8), EosLeaf(9)>>)>>),
     Eos_AllTables(Range(R(0), R(20), 3),
        <<Eos_ConstMetalTables(Range(R(0), R(8), 3), <<EosLeaf(1), EosLeaf(2), EosLeaf(3)>>),
          Eos_ConstMetalTables(Range(R(8), R(8), 3), <<EosLeaf(4), EosLeaf(5), EosLeaf(6)>>),
          Eos_ConstMetalTables(Range(R(4), R(8), 4),
                               <<EosLeaf(7), EosLeaf(8), EosLeaf(9), EosLeaf(10)>>)>>)}

\* metallicities and H fractions asked for: below, on, near, between and
\* above the grid points
EosMetalVals == {R(-3), R(0), R(5), R(20), Norm(61, 2), R(40), R(41), R(43)}
EosHFracVals == {R(-2), R(0), R(2), R(8), R(12), R(16), R(17), R(24), R(30)}

\* From<&AllRawTables> for AllTables
EosFrom ==
    /\ call.op = "none"
    /\ \E rawtbls \in RawEosTables :
         /\ eos' = rawtbls
         /\ call' = Call("eos_from", <<>>, Ok(<<>>))
    /\ UNCHANGED <<axis, opac, linear, state, fortVars>>

\* AllTables::take_at_metallicity consumes self
EosTakeAtMetallicity ==
    /\ eos.kind = "AllTables"
    /\ \E metallicity \in EosMetalVals :
         \E res \in {Eos_take_at_metallicity(eos, metallicity)} :
         /\ call' = Call("eos_take_at_metallicity",
                         [self |-> eos, metallicity |-> metallicity], res)
         /\ eos' = IF res.tag = "Ok" THEN res.val ELSE NoTable
    /\ UNCHANGED <<axis, opac, linear, state, fortVars>>

\* ConstMetalTables::take_at_h_frac consumes self
EosTakeAtHFrac ==
    /\ eos.kind = "ConstMetalTables"
    /\ call.op = "eos_take_at_metallicity"
    /\ \E h_frac \in EosHFracVals :
         \E res \in {Eos_take_at_h_frac(eos, h_frac)} :
         /\ call' = Call("eos_take_at_h_frac", [self |-> eos, h_frac |-> h_frac], res)
         /\ eos' = IF res.tag = "Ok" THEN res.val ELSE NoTable
    /\ UNCHANGED <<axis, opac, linear, state, fortVars>>

\* ConstMetalTables::at_h_frac borrows self
EosAtHFrac ==
    /\ eos.kind = "ConstMetalTables"
    /\ call.op = "eos_take_at_metallicity"
    /\ \E h_frac \in EosHFracVals :
         call' = Call("eos_at_h_frac", [self |-> eos, h_frac |-> h_frac],
                      Eos_at_h_frac(eos, h_frac))
    /\ UNCHANGED <<axis, opac, linear, eos, state, fortVars>>

\* the coordinates asked for on an axis of a table: every grid point and
\* the point one quarter into every interval
EosCoordVals(ax) ==
    {at(ax, i) : i \in 0..(ax.n_values - 1)}
    \cup {RAdd(at(ax, i), RMul(Norm(1, 4), ax.step)) : i \in 0..(ax.n_values - 2)}

\* VolumeEnergyTable::at borrows self
EosTableAt ==
    /\ eos.kind = "VolumeEnergyTable"
    /\ call.op = "eos_take_at_h_frac"
    /\ \E log_energy \in EosCoordVals(eos.log_energy),
          log_volume \in EosCoordVals(eos.log_volume), var \in 0..(NVars - 1) :
         call' = Call("eos_table_at",
                      [self |-> eos, log_energy |-> log_energy,
                       log_volume |-> log_volume, var |-> var],
                      VolumeEnergyTable_at(eos, log_energy, log_volume, var))
    /\ UNCHANGED <<axis, opac, linear, eos, state, fortVars>>

\* ConstMetalTables::at borrows self
EosConstMetalAt ==
    /\ eos.kind = "ConstMetalTables"
    /\ call.op = "eos_take_at_metallicity"
    /\ \E h_frac \in EosHFracVals, log_energy \in EosCoordVals(EosLogEnergy),
          log_volume \in EosCoordVals(EosLogVolume), var \in 0..(NVars - 1) :
         call' = Call("eos_const_metal_at",
                      [self |-> eos, h_frac |-> h_frac, log_energy |-> log_energy,
                       log_volume |-> log_volume, var |-> var],
                      Eos_ConstMetalTables_at(eos, h_frac, log_energy, log_volume, var))
    /\ UNCHANGED <<axis, opac, linear, eos, state, fortVars>>

\* the axes spline_stencil is called on: those of the tables, and one of
\* fewer than 4 points
SplineAxes == {EosLogEnergy, EosLogVolume, Range(R(0), R(8), 3)}

\* values at every quarter step from below the axis to above it, and half a
\* tolerance on either side of every grid point
SplineQueryVals(ax) ==
    {RAdd(ax.first, RMul(Norm(k, 4), ax.step)) : k \in (-4)..(4 * ax.n_values)}
    \cup {RAdd(at(ax, i), Norm(s, 2)) : i \in 0..(ax.n_values - 1), s \in {-1, 1}}

\* Range::spline_stencil on an axis of a table
EosSplineStencil ==
    /\ call.op = "none"
    /\ \E self \in SplineAxes :
         \E value \in SplineQueryVals(self) :
            call' = Call("eos_spline_stencil", [self |-> self, value |-> value],
                         Range_spline_stencil(self, value))
    /\ UNCHANGED <<axis, opac, linear, eos, state, fortVars>>

\* a table on the given axes: values[i_e, i_v, var]
EosLeafOn(log_volume, log_energy, seed) ==
    VolumeEnergyTable(log_volume, log_energy,
        [t \in {<<ie, iv, ivar>> : ie \in 0..(log_energy.n_values - 1),
                                    iv \in 0..(log_volume.n_values - 1),
                                    ivar \in 0..(NVars - 1)}
            |-> R(seed * seed + 3 * seed * t[1] + t[1] * t[1] * t[2] - 7 * t[2]
                  + t[3] * (t[1] + 2 * t[2] * t[2] - seed))])

\* axes equal to ax, within the tolerance of it, and differing from it in
\* the first value, in the step or in the number of points
AxesAround(ax) ==
    {ax,
     Range(RAdd(ax.first, R(1)), ax.step, ax.n_values),
     Range(ax.first, RSub(ax.step, Norm(1, 2)), ax.n_values),
     Range(RAdd(ax.first, R(2)), ax.step, ax.n_values),
     Range(ax.first, RAdd(ax.step, R(2)), ax.n_values),
     Range(ax.first, ax.step, ax.n_values + 1)}

\* the interpolators of an H fraction or metallicity between two grid points
EosBlends ==
    {LinearInterpolator_new(R(0), R(8), h).val : h \in {R(2), R(4), R(7)}}

\* VolumeEnergyTable::interp_with borrows both tables
InterpWith ==
    /\ call.op = "none"
    /\ \E log_volume \in AxesAround(EosLogVolume),
          log_energy \in AxesAround(EosLogEnergy), seed \in {2, 5}, lin \in EosBlends :
         LET self == EosLeaf(3)
             other == EosLeafOn(log_volume, log_energy, seed)
         IN  call' = Call("interp_with", [self |-> self, other |-> other, lin |-> lin],
                          interp_with(self, other, lin))
    /\ UNCHANGED <<axis, opac, linear, eos, state, fortVars>>

InitEos == InitAxis

NextEos ==
    \/ EosSplineStencil \/ SubrangeIn \/ EosFrom \/ EosTakeAtMetallicity
    \/ EosTakeAtHFrac \/ EosAtHFrac \/ EosTableAt \/ EosConstMetalAt \/ InterpWith

SpecEos == InitEos /\ [][NextEos]_vars

----------------------------------------------------------------------------
(* The calls made on the embedded EOS registry.  Fractions are in units of
   1e-3 here: the mass fraction 1 is 1000, the metallicity 0.02 is 20.  The
   tolerance of one unit is wider than 1e-12; no point of RAW_TABLES lies
   within either distance of another. *)

\* the mass fraction 1.0
UnitFraction == R(1000)

\* RAW_TABLES, a leaf table standing for each embedded output_DE_z*x*.bindata
RAW_TABLES ==
    Eos_AllTables(Range(R(0), R(20), 3),
        <<Eos_ConstMetalTables(Range(R(0), R(1000), 6),
              <<EosLeaf(1), EosLeaf(2), EosLeaf(3), EosLeaf(4), EosLeaf(5), EosLeaf(6)>>),
          Eos_ConstMetalTables(Range(R(0), R(200), 5),
              <<EosLeaf(7), EosLeaf(8), EosLeaf(9), EosLeaf(10), EosLeaf(11)>>),
          Eos_ConstMetalTables(Range(R(0), R(200), 5),
              <<EosLeaf(12), EosLeaf(13), EosLeaf(14), EosLeaf(15), EosLeaf(16)>>)>>)

\* metallicities asked for: below, on, between and above the grid points
RegistryMetalVals == {R(-1), R(0), R(10), R(20), R(30), R(40), R(41)}

\* H fractions asked for: every 0.05 from below 0 to above 1
RegistryHFracVals == {R(50 * k) : k \in (-1)..21}

\* AllTables::default
RegistryDefault ==
    /\ call.op = "none"
    /\ eos' = RAW_TABLES
    /\ call' = Call("eos_default", <<>>, Ok(<<>>))
    /\ UNCHANGED <<axis, opac, linear, state, fortVars>>

\* AllTables::take_at_metallicity on the embedded registry
RegistryTakeAtMetallicity ==
    /\ eos.kind = "AllTables"
    /\ \E metallicity \in RegistryMetalVals :
         \E res \in {Eos_take_at_metallicity(eos, metallicity)} :
         /\ call' = Call("eos_take_at_metallicity",
                         [self |-> eos, metallicity |-> metallicity], res)
         /\ eos' = IF res.tag = "Ok" THEN res.val ELSE NoTable
    /\ UNCHANGED <<axis, opac, linear, state, fortVars>>

\* ConstMetalTables::take_at_h_frac on a bucket of the embedded registry
RegistryTakeAtHFrac ==
    /\ eos.kind = "ConstMetalTables"
    /\ call.op = "eos_take_at_metallicity"
    /\ \E h_frac \in RegistryHFracVals :
         \E res \in {Eos_take_at_h_frac(eos, h_frac)} :
         /\ call' = Call("eos_take_at_h_frac", [self |-> eos, h_frac |-> h_frac], res)
         /\ eos' = IF res.tag = "Ok" THEN res.val ELSE NoTable
    /\ UNCHANGED <<axis, opac, linear, state, fortVars>>

\* ConstMetalTables::at_h_frac on a bucket of the embedded registry
RegistryAtHFrac ==
    /\ eos.kind = "ConstMetalTables"
    /\ call.op = "eos_take_at_metallicity"
    /\ \E h_frac \in RegistryHFracVals :
         call' = Call("eos_at_h_frac", [self |-> eos, h_frac |-> h_frac],
                      Eos_at_h_frac(eos, h_frac))
    /\ UNCHANGED <<axis, opac, linear, eos, state, fortVars>>

InitRegistry == InitAxis

NextRegistry ==
    \/ RegistryDefault \/ RegistryTakeAtMetallicity \/ RegistryTakeAtHFrac
    \/ RegistryAtHFrac

SpecRegistry == InitRegistry /\ [][NextRegistry]_vars

----------------------------------------------------------------------------
(* VolumeEnergyTable::read_from (and RawTableContent::read_from, the same
   code), record by record.  Here the stream is the sequence of the records
   of the reader, pos the number of records consumed, and a record is
   [pre, elts, post, cut]: the leading length, the elements of the payload
   that are there, the trailing length, and whether the stream ends before
   the trailing length. *)

\* read_fort_record(&mut reader, buffer) with buffer of n elements of type T,
\* on the next record of the stream: the elements read, or the io::Error
fort_record(T, n) ==
    IF pos >= Len(stream) THEN Err(EofErr)
    ELSE Let(stream[pos + 1], LAMBDA rec :
         IF rec.pre # n * read_size(T)
         THEN Err(InvalidData("pre", n * read_size(T), rec.pre))
         ELSE IF Len(rec.elts) < n \/ rec.cut THEN Err(EofErr)
         ELSE IF rec.post # rec.pre
         THEN Err(InvalidData("post", rec.pre, rec.post))
         ELSE Ok(SubSeq(rec.elts, 1, n)))

\* .map_err(|e| io::Error::new(io::ErrorKind::InvalidData, e))
InvalidAxis(e) == [kind |-> "InvalidData", where |-> "from_slice", source |-> e]

\* Array3::zeros(shape)
Array3_zeros(shape) ==
    [t \in {<<i, j, k>> : i \in 0..(shape[0] - 1), j \in 0..(shape[1] - 1),
                          k \in 0..(shape[2] - 1)} |-> R(0)]

\* values.slice_mut(s![i_e, i_v, ..]) overwritten with the elements read
slice_mut_fill(values, i_e, i_v, raw_slc) ==
    [t \in DOMAIN values |->
        IF t[1] = i_e /\ t[2] = i_v THEN raw_slc[t[3] + 1] ELSE values[t]]

\* faulty variant, for sensitivity runs: the energy loop is the outer one
loop_next_energy_outer(i_v, i_e, shape) ==
    IF i_v + 1 < shape[1]
    THEN [i_v |-> i_v + 1, i_e |-> i_e, done |-> FALSE]
    ELSE [i_v |-> 0, i_e |-> i_e + 1, done |-> i_e + 1 >= shape[0]]

\* for i_v in 0..shape[1] { for i_e in 0..shape[0] { .. } }: the iteration
\* that follows (i_v, i_e), and whether the loops are over
loop_next(i_v, i_e, shape) ==
    IF i_e + 1 < shape[0]
    THEN [i_v |-> i_v, i_e |-> i_e + 1, done |-> FALSE]
    ELSE [i_v |-> i_v + 1, i_e |-> 0, done |-> i_v + 1 >= shape[1]]

\* the table under construction
Decoding(shape, log_volume, log_energy, values, i_v, i_e) ==
    [kind |-> "decoding", shape |-> shape, log_volume |-> log_volume,
     log_energy |-> log_energy, values |-> values, i_v |-> i_v, i_e |-> i_e]

\* `?` on a failed step: read_from returns the error and no table
DecodeFails(e) ==
    /\ pc' = "err"
    /\ err' = e
    /\ eos' = NoTable
    /\ pos' = pos

\* the header record: ne, nv, nvars
DecodeShape ==
    /\ pc = "shape"
    /\ \E res \in {fort_record("u32", 3)} :
         IF res.tag # "Ok" THEN DecodeFails(res.val)
         ELSE /\ eos' = Decoding([i \in 0..2 |-> res.val[i + 1]],
                                 NoAxis, NoAxis, <<>>, 0, 0)
              /\ pos' = pos + 1
              /\ pc' = "log_volume"
              /\ err' = err
    /\ UNCHANGED <<stream, elt_size, buffer, pre_size, axis, opac, linear, call, state>>

\* the record of shape[1] log-volume values
DecodeLogVolume ==
    /\ pc = "log_volume"
    /\ \E res \in {fort_record("f64", eos.shape[1])} :
         IF res.tag # "Ok" THEN DecodeFails(res.val)
         ELSE \E r \in {Range_from_slice(res.val)} :
                IF r.tag # "Ok" THEN DecodeFails(InvalidAxis(r.val))
                ELSE /\ eos' = [eos EXCEPT !.log_volume = r.val]
                     /\ pos' = pos + 1
                     /\ pc' = "log_energy"
                     /\ err' = err
    /\ UNCHANGED <<stream, elt_size, buffer, pre_size, axis, opac, linear, call, state>>

\* the record of shape[0] log-energy values, then the zeroed array; the
\* loops are not entered when an extent is 0
DecodeLogEnergy ==
    /\ pc = "log_energy"
    /\ \E res \in {fort_record("f64", eos.shape[0])} :
         IF res.tag # "Ok" THEN DecodeFails(res.val)
         ELSE \E r \in {Range_from_slice(res.val)} :
                IF r.tag # "Ok" THEN DecodeFails(InvalidAxis(r.val))
                ELSE /\ pos' = pos + 1
                     /\ err' = err
                     /\ IF eos.shape[0] = 0 \/ eos.shape[1] = 0
                        THEN /\ pc' = "ok"
                             /\ eos' = VolumeEnergyTable(eos.log_volume, r.val,
                                                         Array3_zeros(eos.shape))
                        ELSE /\ pc' = "values"
                             /\ eos' = [eos EXCEPT !.log_energy = r.val,
                                                   !.values = Array3_zeros(eos.shape)]
    /\ UNCHANGED <<stream, elt_size, buffer, pre_size, axis, opac, linear, call, state>>

\* one iteration of the loops: a record of shape[2] values read into
\* values[i_e, i_v, ..]; after the last one the table is returned
DecodeValues ==
    /\ pc = "values"
    /\ \E res \in {fort_record("f64", eos.shape[2])} :
         IF res.tag # "Ok" THEN DecodeFails(res.val)
         ELSE \E values \in {slice_mut_fill(eos.values, eos.i_e, eos.i_v, res.val)},
                 nxt \in {loop_next(eos.i_v, eos.i_e, eos.shape)} :
                /\ pos' = pos + 1
                /\ err' = err
                /\ IF nxt.done
                   THEN /\ pc' = "ok"
                        /\ eos' = VolumeEnergyTable(eos.log_volume, eos.log_energy,
                                                    values)
                   ELSE /\ pc' = "values"
                        /\ eos' = [eos EXCEPT !.values = values,
                                              !.i_v = nxt.i_v, !.i_e = nxt.i_e]
    /\ UNCHANGED <<stream, elt_size, buffer, pre_size, axis, opac, linear, call, state>>

(* The streams tables are decoded from *)

\* a record as a Fortran writer leaves it
WrittenRecord(T, elts) ==
    [pre |-> Len(elts) * read_size(T), elts |-> elts,
     post |-> Len(elts) * read_size(T), cut |-> FALSE]

\* the records of a table: the header, the two axes, and the value records
\* in the order of the file, the k-th (0-based) holding 100 k + j at place j
WrittenTable(ne, nv, nvars) ==
    <<WrittenRecord("u32", <<ne, nv, nvars>>),
      WrittenRecord("f64", [i \in 1..nv |-> R(8 * (i - 1))]),
      WrittenRecord("f64", [i \in 1..ne |-> R(2 + 16 * (i - 1))])>>
    \o [k \in 1..(nv * ne) |->
          WrittenRecord("f64", [j \in 1..nvars |-> R(100 * (k - 1) + j - 1)])]

\* what can be wrong with the record r of a stream s: nothing, a leading
\* length that is 4 too large, a trailing length that is 4 too large, a
\* stream that ends inside the payload or before the trailing length or
\* before the record, and a last element moved by 4
Damaged(s, r, how) ==
    IF how = "none" THEN s
    ELSE IF how = "pre" THEN [s EXCEPT ![r].pre = @ + 4]
    ELSE IF how = "post" THEN [s EXCEPT ![r].post = @ + 4]
    ELSE IF how = "payload"
    THEN SubSeq([s EXCEPT ![r].elts = SubSeq(@, 1, Len(@) - 1), ![r].cut = TRUE], 1, r)
    ELSE IF how = "trailer" THEN SubSeq([s EXCEPT ![r].cut = TRUE], 1, r)
    ELSE IF how = "missing" THEN SubSeq(s, 1, r - 1)
    ELSE [s EXCEPT ![r].elts[Len(s[r].elts)] =
            IF r = 1 THEN @ + 1 ELSE RAdd(@, R(4))]

DamageKinds == {"none", "pre", "post", "payload", "trailer", "missing", "moved"}

InitDecode ==
    /\ AxisIdle
    /\ elt_size = 4 /\ buffer = <<>> /\ pre_size = 0 /\ err = NoErr
    /\ pos = 0
    /\ pc = "shape"
    /\ \E ne \in 2..MaxAxisLen, nv \in 2..MaxAxisLen, nvars \in 1..NVars :
         \E r \in 1..(3 + nv * ne), how \in DamageKinds :
            stream = Damaged(WrittenTable(ne, nv, nvars), r, how)

NextDecode == DecodeShape \/ DecodeLogVolume \/ DecodeLogEnergy \/ DecodeValues

SpecDecode == InitDecode /\ [][NextDecode]_vars

----------------------------------------------------------------------------
(* The calls made on the opacity objects *)

\* metallicities and H fractions of the states, in the units of
\* RawOpacityTable: on its grid points, half a tolerance and a whole
\* tolerance further, further still, and outside the table
OpacityMetalVals == {R(3), Norm(7, 2), R(4), Norm(9, 2), R(6), R(11)}
OpacityHFracVals == {R(4), Norm(9, 2), R(5), R(2), R(-3)}

\* states of one element of every such composition
OpacityCompoStates ==
    {CstCompoState([t \in {<<0>>} |-> R(0)], [t \in {<<0>>} |-> R(0)],
                   [t \in {<<0>>} |-> R(0)], ArcLeaf(1, z, h)) :
        z \in OpacityMetalVals, h \in OpacityHFracVals}

OpacityMetalStates ==
    {CstMetalState([t \in {<<0>>} |-> h], [t \in {<<0>>} |-> R(0)],
                   [t \in {<<0>>} |-> R(0)], [t \in {<<0>>} |-> R(0)],
                   Arc(1, z)) :
        z \in OpacityMetalVals, h \in {R(4)}}

CompoOpacityNew ==
    /\ call.op = "none"
    /\ \E st \in OpacityCompoStates :
         \E res \in {CstCompoOpacity_new(st)} :
            /\ call' = Call("CstCompoOpacity_new", [state |-> st], res)
            /\ opac' = IF res.tag = "Ok" THEN res.val ELSE NoTable
    /\ UNCHANGED <<axis, linear, eos, state, fortVars>>

MetalOpacityNew ==
    /\ call.op = "none"
    /\ \E st \in OpacityMetalStates :
         \E res \in {CstMetalOpacity_new(st)} :
            /\ call' = Call("CstMetalOpacity_new", [state |-> st], res)
            /\ opac' = IF res.tag = "Ok" THEN res.val ELSE NoTable
    /\ UNCHANGED <<axis, linear, eos, state, fortVars>>

\* set_state on an object no call has panicked on
CompoOpacitySetState ==
    /\ opac.kind = "CstCompoOpacity"
    /\ call.res.tag = "Ok"
    /\ \E st \in OpacityCompoStates :
         \E out \in {CstCompoOpacity_set_state(opac, st)} :
            /\ call' = Call("opacity_set_state", [self |-> opac, state |-> st], out.res)
            /\ opac' = out.self
    /\ UNCHANGED <<axis, linear, eos, state, fortVars>>

MetalOpacitySetState ==
    /\ opac.kind = "CstMetalOpacity"
    /\ call.res.tag = "Ok"
    /\ \E st \in OpacityMetalStates :
         \E out \in {CstMetalOpacity_set_state(opac, st)} :
            /\ call' = Call("opacity_set_state", [self |-> opac, state |-> st], out.res)
            /\ opac' = out.self
    /\ UNCHANGED <<axis, linear, eos, state, fortVars>>

InitOpacity == InitAxis

NextOpacity ==
    \/ CompoOpacityNew \/ MetalOpacityNew
    \/ CompoOpacitySetState \/ MetalOpacitySetState

SpecOpacity == InitOpacity /\ [][NextOpacity]_vars

----------------------------------------------------------------------------
(* The calls made on the states *)

\* the index sets of the arrays: 1 to MaxCells elements
StateShapes == {{<<i>> : i \in 0..(n - 1)} : n \in 1..MaxCells}

\* four families of input arrays: two with densities and energies that vary
\* from element to element, and two with one density and one energy
\* throughout and He fractions 0.10, 0.15, 0.20 (H fractions within one cell
\* of StateHFracs) and 0.2, 0.3, 0.4 (H fractions on both sides of a grid
\* point, as in tests::constant_metal)
DensityArray(s, v) ==
    [t \in s |-> IF v = 1 THEN Pow10(t[1] % 3)
                 ELSE IF v = 2 THEN Pow10(2 - (t[1] % 2)) ELSE Pow10(1)]
EnergyArray(s, v) ==
    [t \in s |-> IF v = 1 THEN Pow10(1)
                 ELSE IF v = 2 THEN Pow10(3 + (t[1] % 2)) ELSE Pow10(1)]
HeFracArray(s, v) ==
    [t \in s |-> IF v = 1 THEN Norm(1, 5)
                 ELSE IF v = 2 THEN Norm(3 + (t[1] % 2), 10)
                 ELSE IF v = 3 THEN Norm(10 + 5 * t[1], 100)
                 ELSE Norm(2 + t[1], 10)]

\* the tables states are built against
StateTables == {Arc(1, R(0)), Arc(2, Norm(1, 50))}

\* the index set of the arrays of three elements
ThreeCells == {<<0>>, <<1>>, <<2>>}

\* the arrays handed to new and set_state: the first two families in every
\* combination of shapes, the other two as arrays of three elements
StateInputs ==
    {[he_frac |-> HeFracArray(sh, v), density |-> DensityArray(sd, v),
      energy |-> EnergyArray(se, v)] :
        sh \in StateShapes, sd \in StateShapes, se \in StateShapes, v \in {1, 2}}
    \cup {[he_frac |-> HeFracArray(ThreeCells, v),
           density |-> DensityArray(ThreeCells, v),
           energy |-> EnergyArray(ThreeCells, v)] : v \in {3, 4}}

CompoNew ==
    /\ call.op = "none"
    /\ \E table \in StateTables, in \in StateInputs :
         \E res \in {CstCompoState_new(table, in.density, in.energy)} :
            /\ call' = Call("CstCompoState_new",
                            [density |-> in.density, energy |-> in.energy], res)
            /\ state' = IF res.tag = "Ok" THEN res.val ELSE NoState
    /\ UNCHANGED <<axis, opac, linear, eos, fortVars>>

MetalNew ==
    /\ call.op = "none"
    /\ \E table \in StateTables, in \in StateInputs :
         \E res \in {CstMetalState_new(table, in.he_frac, in.density, in.energy)} :
            /\ call' = Call("CstMetalState_new", in, res)
            /\ state' = IF res.tag = "Ok" THEN res.val ELSE NoState
    /\ UNCHANGED <<axis, opac, linear, eos, fortVars>>

\* set_state on a state no call has panicked on
MetalSetState ==
    /\ state.kind = "CstMetalState"
    /\ call.res.tag = "Ok"
    /\ \E in \in StateInputs :
         \E out \in {CstMetalState_set_state(state, in.he_frac, in.density, in.energy)} :
            /\ call' = Call("set_state",
                            [self |-> state, he_frac |-> in.he_frac,
                             density |-> in.density, energy |-> in.energy], out.res)
            /\ state' = out.self
    /\ UNCHANGED <<axis, opac, linear, eos, fortVars>>

\* the arguments of the most recent new or set_state
LastSet == IF call.op = "compute" THEN call.arg.since ELSE call.arg

\* for every variable, the result of the latest compute of it since then
LastSeen ==
    IF call.op = "compute"
    THEN [call.arg.seen EXCEPT ![call.arg.var] = Some(call.res)]
    ELSE [var \in 0..(NVars - 1) |-> None]

\* compute on a state no call has panicked on
CompoCompute ==
    /\ state.kind = "CstCompoState"
    /\ call.res.tag = "Ok"
    /\ \E var \in 0..(NVars - 1) :
         \E out \in {CstCompoState_compute(state, var)} :
            /\ call' = Call("compute",
                            [self |-> state, var |-> var, since |-> LastSet,
                             seen |-> LastSeen], out.res)
            /\ state' = out.self
    /\ UNCHANGED <<axis, opac, linear, eos, fortVars>>

MetalCompute ==
    /\ state.kind = "CstMetalState"
    /\ call.res.tag = "Ok"
    /\ \E var \in 0..(NVars - 1) :
         \E out \in {CstMetalState_compute(state, var)} :
            /\ call' = Call("compute",
                            [self |-> state, var |-> var, since |-> LastSet,
                             seen |-> LastSeen], out.res)
            /\ state' = out.self
    /\ UNCHANGED <<axis, opac, linear, eos, fortVars>>

\* an opacity table of one composition, on axes in natural units: log T
\* from 18.205 to 28.005 in steps of 2.45, whose grid points the
\* temperatures of the states fall within a tolerance of or outside the
\* axis, and log R from -80 to -30, between whose grid points every log R
\* falls
StateRTempTable ==
    RTempTable(R(0), R(80), Range(Norm(3641, 200), Norm(49, 20), 5),
               Range(R(-80), R(25), 3),
               [t \in {<<it, ir>> : it \in 0..4, ir \in 0..2}
                   |-> R(3 * t[1] * t[2] + t[2] * t[2] - t[1])])

\* CstCompoOpacity::with_table takes the state
CompoOpacityWithTable ==
    /\ state.kind = "CstCompoState"
    /\ call.res.tag = "Ok"
    /\ opac' = CstCompoOpacity(StateRTempTable, state)
    /\ state' = NoState
    /\ call' = Call("with_table", [state |-> state], Ok(<<>>))
    /\ UNCHANGED <<axis, linear, eos, fortVars>>

CompoOpacityCompute ==
    /\ opac.kind = "CstCompoOpacity"
    /\ call.res.tag = "Ok"
    /\ call' = Call("opacity_compute", [self |-> opac], CstCompoOpacity_compute(opac))
    /\ UNCHANGED <<axis, opac, linear, eos, state, fortVars>>

InitState == InitAxis

NextState ==
    \/ CompoNew \/ MetalNew \/ MetalSetState \/ CompoCompute \/ MetalCompute
    \/ CompoOpacityWithTable \/ CompoOpacityCompute

SpecState == InitState /\ [][NextState]_vars

----------------------------------------------------------------------------
(* Properties of the interpolation primitives *)

\* C8: LinearInterpolator::new(left, right, at) requires left < right and
\* left < at < right (strict) and precomputes w = (right - at)/(right - left);
\* interp_scalar(l, r) = w*l + (1-w)*r; interp on two arrays of equal shape
\* returns the array of that shape whose every element is interp_scalar of
\* the corresponding elements.
C8_LinearBlend ==
    /\ call.op = "LinearInterpolator_new" =>
          LET l == call.arg[1]
              r == call.arg[2]
              a == call.arg[3]
          IN  IF RLt(l, r) /\ RLt(l, a) /\ RLt(a, r)
              THEN /\ call.res.tag = "Ok"
                   /\ linear = <<call.res.val>>
                   /\ RMul(call.res.val.left_coef, RSub(r, l)) = RSub(r, a)
              ELSE call.res.tag = "Panic" /\ linear = <<>>
    /\ call.op = "interp_scalar" =>
          LET w == linear[1].left_coef IN
          RMul(call.res, R(w[2])) =
             RAdd(RMul(R(w[1]), call.arg[1]), RMul(R(w[2] - w[1]), call.arg[2]))
    /\ call.op = "interp" =>
          /\ DOMAIN call.res = DOMAIN call.arg[1]
          /\ \A t \in DOMAIN call.res :
                call.res[t] = interp_scalar(linear[1], call.arg[1][t], call.arg[2][t])

\* two different 2 x 2 arrays were blended with a weight other than 1/2
C8_Witness ==
    /\ call.op = "interp" /\ Cardinality(DOMAIN call.res) = 4
    /\ call.arg[1] # call.arg[2]
    /\ linear[1].left_coef \notin {Norm(1, 2), R(0), R(1)}
    /\ \E t \in DOMAIN call.res : call.res[t] \notin {call.arg[1][t], call.arg[2][t]}

\* the abscissas and ordinates the call was made on
CallX == Window(call.arg.xs, call.arg.w)
CallY == Window(call.arg.ys, call.arg.w)

\* y[k] = a x[k]^2 + b x[k] + c on the 4 points
Samples(x, y, a, b, c) == \A k \in 1..4 : y[k] = Poly(a, b, c, x[k])

\* the 4 abscissas are evenly spaced
EvenlySpaced(x) ==
    /\ RSub(x[2], x[1]) = RSub(x[3], x[2])
    /\ RSub(x[3], x[2]) = RSub(x[4], x[3])

\* C9 as stated: low_level_spline(x, y, at) returns f(at) for every linear and
\* every quadratic f when y[k] = f(x[k]), for every query point of the window
\* and any strictly increasing abscissas.
C9_ReproducesQuadraticsAnywhere ==
    call.op = "low_level_spline" =>
        \A a \in QuadCoefs, b \in LinCoefs, c \in LinCoefs :
            Samples(CallX, CallY, a, b, c) => call.res = Poly(a, b, c, call.arg.at)

\* C9 (amended): low_level_spline(x, y, at) returns f(at) for every linear f
\* with any strictly increasing abscissas, and for every quadratic f when the
\* four abscissas are evenly spaced, for every query point of the window.
C9_ReproducesLowDegree ==
    call.op = "low_level_spline" =>
        \A a \in QuadCoefs, b \in LinCoefs, c \in LinCoefs :
            (Samples(CallX, CallY, a, b, c) /\ (a = 0 \/ EvenlySpaced(CallX))) =>
                call.res = Poly(a, b, c, call.arg.at)

\* a quadratic sampled on evenly spaced abscissas was evaluated off the grid
C9_Witness ==
    /\ call.op = "low_level_spline" /\ EvenlySpaced(CallX)
    /\ \E a \in QuadCoefs \ {0}, b \in LinCoefs \ {0}, c \in LinCoefs :
          Samples(CallX, CallY, a, b, c)
    /\ call.arg.at \notin {CallX[k] : k \in 1..4}
    /\ RLt(CallX[2], call.arg.at) /\ RLt(call.arg.at, CallX[3])

\* derivative at p of the cubic low_level_spline(x, y, .), by the five-point
\* difference quotient, which is exact for polynomials of degree <= 4
Slope(x, y, p) ==
    RDiv(RSub(RMul(R(8), RSub(low_level_spline(x, y, RAdd(p, R(1))),
                              low_level_spline(x, y, RSub(p, R(1))))),
              RSub(low_level_spline(x, y, RAdd(p, R(2))),
                   low_level_spline(x, y, RSub(p, R(2))))),
         R(12))

\* C10: the centered cubic is C1-continuous across windows: low_level_spline
\* returns y[1] at x[1] and y[2] at x[2], its derivative there is
\* (y[2]-y[0])/(x[2]-x[0]) and (y[3]-y[1])/(x[3]-x[1]), so that value and
\* slope at a shared grid point agree between the window ending there and the
\* window starting there.  (Indices in this comment are the source's.)
C10_C1Continuous ==
    call.op = "low_level_spline" =>
        LET x == CallX
            y == CallY
            x0 == Window(call.arg.xs, 0)
            y0 == Window(call.arg.ys, 0)
            x1 == Window(call.arg.xs, 1)
            y1 == Window(call.arg.ys, 1)
            p == call.arg.xs[3]
        IN  /\ call.arg.at = x[2] => call.res = y[2]
            /\ call.arg.at = x[3] => call.res = y[3]
            /\ low_level_spline(x, y, x[2]) = y[2]
            /\ low_level_spline(x, y, x[3]) = y[3]
            /\ Slope(x, y, x[2]) = RDiv(RSub(y[3], y[1]), RSub(x[3], x[1]))
            /\ Slope(x, y, x[3]) = RDiv(RSub(y[4], y[2]), RSub(x[4], x[2]))
            /\ low_level_spline(x0, y0, p) = low_level_spline(x1, y1, p)
            /\ Slope(x0, y0, p) = Slope(x1, y1, p)

\* the second window of unevenly spaced data that follow no parabola was
\* evaluated at the grid point it shares with the first window
C10_Witness ==
    /\ call.op = "low_level_spline" /\ call.arg.w = 1
    /\ call.arg.at = call.arg.xs[3]
    /\ ~EvenlySpaced(CallX)
    /\ call.arg.ys = <<R(2), R(-1), R(-1), R(2), R(-1)>>
    /\ call.res = call.arg.ys[3]

----------------------------------------------------------------------------
(* Properties of the two-dimensional interpolations *)

\* row i and column j of a grid, as one-dimensional arrays
GridRow(z, i) == [s \in {<<k>> : k \in 0..(GridLen - 1)} |-> z[<<i, s[1]>>]]
GridCol(z, j) == [s \in {<<k>> : k \in 0..(GridLen - 1)} |-> z[<<s[1], j>>]]

\* the one-dimensional stencil of the call applied to an array
Apply1d(op, st, arr) ==
    IF op = "lin_interp_2d" THEN LinearStencil_apply_to(st, arr)
                            ELSE SplineStencil_apply_to(st, arr)

\* C11: in cubic_spline_2d and lin_interp_2d an Exact(i) stencil collapses
\* its dimension to plain indexing at i: (Exact(ix), Exact(iy)) returns
\* z[ix, iy]; (Exact(ix), interpolating y) returns the y stencil applied to
\* row ix; (interpolating x, Exact(iy)) returns the x stencil applied to
\* column iy; when both interpolate, the x stencil is applied to each column
\* of the y stencil and the results are combined along y.
C11_ExactCollapses ==
    call.op \in {"lin_interp_2d", "cubic_spline_2d"} =>
        LET x == call.arg.x_st
            y == call.arg.y_st
            z == call.arg.z
            XOnCol(j) == Apply1d(call.op, x, GridCol(z, j))
        IN  /\ (x.tag = "Exact" /\ y.tag = "Exact") => call.res = z[<<x.i, y.i>>]
            /\ (x.tag = "Exact" /\ y.tag # "Exact")
                  => call.res = Apply1d(call.op, y, GridRow(z, x.i))
            /\ (x.tag # "Exact" /\ y.tag = "Exact") => call.res = XOnCol(y.i)
            /\ (x.tag = "Between" /\ y.tag = "Between")
                  => call.res = interp_scalar(y.lin, XOnCol(y.i), XOnCol(y.j))
            /\ (x.tag = "Centered" /\ y.tag = "Centered")
                  => call.res = low_level_spline(
                                   y.xs, [k \in 1..4 |-> XOnCol(y.r[1] + k - 1)], y.at)

\* an exact x index with a y window whose query lies off the grid
C11_Witness ==
    /\ call.op = "cubic_spline_2d"
    /\ call.arg.x_st.tag = "Exact" /\ call.arg.x_st.i = 3
    /\ call.arg.y_st.tag = "Centered" /\ call.arg.y_st.at = R(21)
    /\ call.res # call.arg.z[<<3, 1>>] /\ call.res # call.arg.z[<<3, 2>>]

\* the grid with its two axes exchanged
Transposed(z) == [t \in {<<u[2], u[1]>> : u \in DOMAIN z} |-> z[<<t[2], t[1]>>]]

\* C12: two-dimensional interpolation does not depend on the order in
\* which the axes are collapsed: lin_interp_2d(x_st, y_st, z) equals
\* lin_interp_2d(y_st, x_st, transpose(z)), and the same for cubic_spline_2d.
C12_AxisOrderIndependent ==
    /\ call.op = "lin_interp_2d"
          => call.res = lin_interp_2d(call.arg.y_st, call.arg.x_st, Transposed(call.arg.z))
    /\ call.op = "cubic_spline_2d"
          => call.res = cubic_spline_2d(call.arg.y_st, call.arg.x_st,
                                        Transposed(call.arg.z))

\* both axes interpolate, off the grid, on a grid that is not symmetric
C12_Witness ==
    /\ call.op = "cubic_spline_2d"
    /\ call.arg.x_st.tag = "Centered" /\ call.arg.x_st.at = R(10)
    /\ call.arg.y_st.tag = "Centered" /\ call.arg.y_st.at = R(45)
    /\ call.arg.z[<<1, 2>>] # call.arg.z[<<2, 1>>]

----------------------------------------------------------------------------
(* Properties of the axis primitives *)

\* numerator of an integral slice value
IntOf(x) == x[1]

\* s is strictly increasing
StrictlyIncreasing(s) == \A i \in 1..(Len(s) - 1) : IntOf(s[i]) < IntOf(s[i + 1])

\* s is a perfect arithmetic progression
PerfectProgression(s) ==
    \A i \in 1..(Len(s) - 1) : IntOf(s[i + 1]) - IntOf(s[i]) = IntOf(s[2]) - IntOf(s[1])

\* some s[i] is further than the tolerance from first + i*(last-first)/(n-1)
OffProgression(s) ==
    LET n == Len(s) IN
    \E i \in 1..n :
        Abs((n - 1) * (IntOf(s[i]) - IntOf(s[1]))
            - (i - 1) * (IntOf(s[n]) - IntOf(s[1]))) > (n - 1) * TolUnits

\* C3: for every strictly increasing, evenly spaced s of length >= 2,
\* Range::from_slice(s) succeeds, the axis has n_values = len(s), its value at
\* index i is within the tolerance of s[i] for every i, and get(i) is None
\* for i >= n_values.
C3_FromSliceRoundTrip ==
    (call.op = "from_slice" /\ Len(call.arg) >= 2
        /\ StrictlyIncreasing(call.arg) /\ PerfectProgression(call.arg)) =>
        /\ call.res.tag = "Ok"
        /\ axis = call.res.val
        /\ axis.n_values = Len(call.arg)
        /\ \A i \in 0..(Len(call.arg) - 1) :
              /\ Range_get(axis, i).some
              /\ RLe(RAbs(RSub(Range_get(axis, i).val, call.arg[i + 1])), R(TolUnits))
        /\ \A i \in Len(call.arg)..(MaxLen + 2) : ~Range_get(axis, i).some

\* an evenly spaced slice of 4 values with a step above the tolerance was built
C3_Witness ==
    /\ call.op = "from_slice" /\ Len(call.arg) = 4 /\ call.res.tag = "Ok"
    /\ PerfectProgression(call.arg)
    /\ IntOf(call.arg[2]) - IntOf(call.arg[1]) > 2 * TolUnits

\* C4 as stated: from_slice fails with FewerThanTwoValues for fewer than 2
\* values, with NotInIncreasingOrder for every slice that is not strictly
\* increasing, with NotLinear for every slice whose spacing deviates from a
\* perfect arithmetic progression; CustomRange::new fails for fewer than 2
\* values and for any adjacent pair that is not strictly increasing.
C4_EveryDeviationRejected ==
    /\ call.op = "from_slice" =>
          /\ Len(call.arg) < 2 => call.res = Err("FewerThanTwoValues")
          /\ (Len(call.arg) >= 2 /\ ~StrictlyIncreasing(call.arg)) =>
                call.res = Err("NotInIncreasingOrder")
          /\ (Len(call.arg) >= 2 /\ StrictlyIncreasing(call.arg)
                /\ ~PerfectProgression(call.arg)) => call.res = Err("NotLinear")
    /\ call.op = "new" =>
          /\ Len(call.arg) < 2 => call.res = Err("FewerThanTwoValues")
          /\ (Len(call.arg) >= 2 /\ ~StrictlyIncreasing(call.arg)) =>
                call.res = Err("NotInIncreasingOrder")

\* C4 (amended): from_slice fails with FewerThanTwoValues for fewer than 2
\* values; otherwise with NotInIncreasingOrder when the last value is not
\* above the first; otherwise with NotLinear when some value is further than
\* the tolerance from first + i*(last-first)/(n-1); every other slice is
\* accepted.  CustomRange::new fails with FewerThanTwoValues for fewer than 2
\* values, with NotInIncreasingOrder when some adjacent pair is not strictly
\* increasing, and accepts every other vector.
C4_ConstructorErrors ==
    /\ call.op = "from_slice" =>
          LET s == call.arg
              n == Len(s)
          IN  call.res =
                IF n < 2 THEN Err("FewerThanTwoValues")
                ELSE IF IntOf(s[n]) <= IntOf(s[1]) THEN Err("NotInIncreasingOrder")
                ELSE IF OffProgression(s) THEN Err("NotLinear")
                ELSE Ok(Range(s[1], Norm(IntOf(s[n]) - IntOf(s[1]), n - 1), n))
    /\ call.op = "new" =>
          call.res =
                IF Len(call.arg) < 2 THEN Err("FewerThanTwoValues")
                ELSE IF ~StrictlyIncreasing(call.arg) THEN Err("NotInIncreasingOrder")
                ELSE Ok(CustomRange(call.arg))

\* a slice of 4 values in increasing order but off the progression by more
\* than the tolerance was rejected as NotLinear
C4_Witness ==
    /\ call.op = "from_slice" /\ Len(call.arg) = 4
    /\ StrictlyIncreasing(call.arg) /\ OffProgression(call.arg)
    /\ call.res = Err("NotLinear")

\* number of grid points of an axis
NVals(ax) == IF ax.kind = "Range" THEN ax.n_values ELSE Len(ax.values)

\* grid point i (0-based) of an axis
Point(ax, i) ==
    IF ax.kind = "Range" THEN RAdd(ax.first, RMul(R(i), ax.step)) ELSE ax.values[i + 1]

\* |a - b| <= 1e-12
Near(a, b) == RLe(RSub(a, b), R(TolUnits)) /\ RLe(RSub(b, a), R(TolUnits))

\* v lies in [first, last], with the tolerance at both ends
InBounds(ax, v) ==
    /\ RLe(RSub(Point(ax, 0), R(TolUnits)), v)
    /\ RLe(v, RAdd(Point(ax, NVals(ax) - 1), R(TolUnits)))

\* what both versions of C5 say of Exact results inside the grid and of Between
ClassifiedOnGrid(ax, v, c) ==
    LET n == NVals(ax) IN
    /\ c.tag = "Exact" => (c.i \in 0..(n - 1) /\ Near(v, Point(ax, c.i)))
    /\ (\E i \in 0..(n - 1) : Near(v, Point(ax, i))) => c.tag = "Exact"
    /\ c.tag = "Between" =>
          /\ c.i \in 0..(n - 2) /\ c.j = c.i + 1
          /\ RLt(Point(ax, c.i), v) /\ RLt(v, Point(ax, c.j))

\* C5 as stated: for a valid axis and v inside [first, last] (tolerance at the
\* ends), idx_lin returns Exact(i) exactly when v is within the tolerance of
\* grid point i, Exact(0) for the first value and Exact(n-1) for the last, and
\* otherwise Between(i, i+1) with axis[i] < v < axis[i+1].
C5_ClassifyFirstAndLast ==
    (call.op = "idx_lin" /\ InBounds(axis, call.arg)) =>
        /\ call.res.tag = "Ok"
        /\ ClassifiedOnGrid(axis, call.arg, call.res.val)
        /\ call.arg = Point(axis, 0) => call.res.val = Exact(0)
        /\ call.arg = Point(axis, NVals(axis) - 1) =>
              call.res.val = Exact(NVals(axis) - 1)

\* C5 (amended): for a valid axis and v inside [first, last] (tolerance at the
\* ends), idx_lin returns Exact(i) only for a grid point i within the
\* tolerance of v and returns an Exact whenever some grid point is within the
\* tolerance of v: Exact(0) whenever v is within the tolerance of the first
\* value, Exact(n-1) whenever v is within the tolerance of the last value and
\* not of the first (so Exact(n-1) for the last value itself when
\* last - first > 1e-12); otherwise Between(i, i+1) with
\* axis[i] < v < axis[i+1].
C5_Classify ==
    (call.op = "idx_lin" /\ InBounds(axis, call.arg)) =>
        LET n == NVals(axis)
            v == call.arg
        IN  /\ call.res.tag = "Ok"
            /\ ClassifiedOnGrid(axis, v, call.res.val)
            /\ Near(v, Point(axis, 0)) => call.res.val = Exact(0)
            /\ (Near(v, Point(axis, n - 1)) /\ ~Near(v, Point(axis, 0))) =>
                  call.res.val = Exact(n - 1)
            /\ (v = Point(axis, n - 1)
                  /\ RLt(R(TolUnits), RSub(Point(axis, n - 1), Point(axis, 0)))) =>
                  call.res.val = Exact(n - 1)

\* a value was classified Between two interior points of a CustomRange, and
\* it is within two tolerances of the right one
C5_Witness ==
    /\ call.op = "idx_lin" /\ axis.kind = "Custom" /\ call.res.tag = "Ok"
    /\ call.res.val.tag = "Between" /\ call.res.val.i >= 1
    /\ call.res.val.j < NVals(axis) - 1
    /\ RLe(RSub(Point(axis, call.res.val.j), call.arg), R(2 * TolUnits))

\* C7: Range::spline_stencil(value) requires n_values >= 4 and has the valid
\* domain [axis[1], axis[n-2]]: outside it (or when n_values < 4) it fails with
\* an out-of-bounds error; a value hitting axis[1] or axis[n-2] collapses to
\* Exact; every other value of the domain gets the window [i-1, i, i+1, i+2]
\* with axis[i] <= value < axis[i+1].
C7_SplineStencilDomain ==
    call.op = "spline_stencil" =>
        LET n == NVals(axis)
            v == call.arg
            res == call.res
        IN  IF n < 4 \/ RLt(v, Point(axis, 1)) \/ RLt(Point(axis, n - 2), v)
            THEN res = Err(OutOfBoundsError(v))
            ELSE IF v = Point(axis, 1) \/ v = Point(axis, n - 2)
            THEN /\ res.tag = "Ok" /\ res.val.tag = "Exact"
                 /\ v = Point(axis, res.val.i)
            ELSE /\ res.tag = "Ok" /\ res.val.tag = "Centered"
                 /\ \E i \in 1..(n - 3) :
                       /\ res.val.r = <<i - 1, i + 3>>
                       /\ RLe(Point(axis, i), v) /\ RLt(v, Point(axis, i + 1))

\* v is outside [first, last] by more than the tolerance
Outside(ax, v) == ~InBounds(ax, v)

\* the result is the out-of-bounds error carrying one of the offending values
FailsOutOfBounds(res, offending) ==
    /\ res.tag = "Err"
    /\ res.val.error = "OutOfBounds"
    /\ res.val.value \in offending

\* what C6 requires of one call: self is the object before the call
OutOfBoundsStep ==
    /\ (call'.op \in {"idx_lin", "linear_stencil"} /\ Outside(axis, call'.arg)) =>
          FailsOutOfBounds(call'.res, {call'.arg})
    /\ (call'.op = "take_at_metallicity" /\ Outside(opac.metallicities, call'.arg)) =>
          /\ FailsOutOfBounds(call'.res, {call'.arg})
          /\ opac'.kind = "none"
    /\ (call'.op = "take_at_h_frac" /\ Outside(opac.h_fracs, call'.arg)) =>
          /\ FailsOutOfBounds(call'.res, {call'.arg})
          /\ opac'.kind = "none"
    /\ call'.op = "ConstMetalTables_at" =>
          LET off == {call'.arg[k] : k \in
                        {k \in 1..3 : Outside(<<opac.h_fracs, opac.log_temperature,
                                                 opac.log_r>>[k], call'.arg[k])}}
          IN  off # {} => FailsOutOfBounds(call'.res, off)
    /\ call'.op = "RTempTable_at" =>
          LET off == {call'.arg[k] : k \in
                        {k \in 1..2 : Outside(<<opac.log_temperature, opac.log_r>>[k],
                                              call'.arg[k])}}
          IN  off # {} => FailsOutOfBounds(call'.res, off)

\* C6: classifying a value outside [first, last] by more than the tolerance
\* fails with an out-of-bounds error carrying the offending value, for Range
\* and CustomRange and for linear_stencil, the opacity take_at_metallicity,
\* take_at_h_frac and at; no result is produced by clamping or extrapolating.
C6_OutOfBoundsFails == [][OutOfBoundsStep]_vars

\* a ConstMetalTables::at call with only log R above its axis was refused,
\* and so was a Range classification just beyond the tolerance
C6_Witness ==
    \/ /\ call.op = "ConstMetalTables_at"
       /\ InBounds(opac.h_fracs, call.arg[1])
       /\ InBounds(opac.log_temperature, call.arg[2])
       /\ RLt(Point(opac.log_r, 2), call.arg[3])
       /\ call.res = Err(OutOfBoundsError(call.arg[3]))
       /\ call.arg[3] # call.arg[1]

----------------------------------------------------------------------------
(* Properties of the opacity tables *)

\* C16: the two query paths of the opacity tables agree: for every
\* (h, logT, logR), ConstMetalTables::at(h, logT, logR), which blends the
\* stencil windows of the two neighbouring H fraction grids and applies
\* lin_interp_2d, equals take_at_h_frac(h) followed by RTempTable::at(logT,
\* logR), and both fail with an out-of-bounds error for the same inputs.
C16_OpacityPathsAgree ==
    call.op = "ConstMetalTables_at" =>
        LET taken == Opac_take_at_h_frac(opac, call.arg[1])
            leaf == RTempTable_at(taken.val, call.arg[2], call.arg[3])
            leafOk == taken.tag = "Ok" /\ leaf.tag = "Ok"
        IN  /\ call.res.tag \in {"Ok", "Err"}
            /\ call.res.tag = "Ok" <=> leafOk
            /\ call.res.tag = "Ok" => call.res.val = leaf.val
            /\ call.res.tag = "Err" =>
                  /\ call.res.val.error = "OutOfBounds"
                  /\ IF taken.tag = "Ok" THEN leaf.tag = "Err"
                                               /\ leaf.val.error = "OutOfBounds"
                                          ELSE taken.tag = "Err"
                                               /\ taken.val.error = "OutOfBounds"

\* a query between two H fractions, two temperatures and two values of
\* log R, on a bucket blended between two metallicities
C16_Witness ==
    /\ call.op = "ConstMetalTables_at" /\ call.res.tag = "Ok"
    /\ call.arg = <<Norm(3, 2), R(6), Norm(3, 2)>>
    /\ opac.metallicity = R(6)
    /\ call.res.val # opac.values[<<0, 1, 0>>]

----------------------------------------------------------------------------
(* Properties of the EOS tables *)

\* the indices of the grid points of self within [other.first, other.last],
\* with the tolerance at both ends
PointsWithin(self, other) ==
    {i \in 0..(self.n_values - 1) :
        /\ RLe(RSub(other.first, R(TolUnits)), Point(self, i))
        /\ RLe(Point(self, i),
               RAdd(RAdd(other.first, RMul(R(other.n_values - 1), other.step)),
                    R(TolUnits)))}

\* C14: Range::subrange_in(other) returns the uniform axis with self's step
\* made of exactly the grid points of self that lie within other's bounds
\* (with tolerance), which form one contiguous run of self; it returns None
\* when fewer than 2 points of self lie within other's bounds.
C14_SubrangeIn ==
    call.op = "subrange_in" =>
        LET self == call.arg.self
            within == PointsWithin(self, call.arg.other)
            sub == call.res.val
        IN  IF Cardinality(within) < 2 THEN ~call.res.some
            ELSE /\ call.res.some
                 /\ sub.step = self.step
                 /\ sub.n_values = Cardinality(within)
                 /\ \A i \in within, j \in within :
                       \A k \in i..j : k \in within
                 /\ \E lo \in within :
                       /\ \A k \in within : lo <= k
                       /\ \A k \in 0..(sub.n_values - 1) :
                             /\ lo + k \in within
                             /\ get(sub, k).some
                             /\ get(sub, k).val = Point(self, lo + k)
                 /\ ~get(sub, sub.n_values).some

\* a proper part of self is kept: points are dropped at both ends, one of
\* the kept points being inside only by the tolerance
C14_Witness ==
    /\ call.op = "subrange_in" /\ call.res.some
    /\ call.arg.self = Range(R(0), R(4), 4)
    /\ call.arg.other = Range(R(3), R(4), 2)
    /\ call.res.val = Range(R(4), R(4), 2)

\* the value at index t of a bucket's table at the H fraction h: the table
\* of the grid point within 1e-12 of h, else the two neighbouring tables
\* weighted by the distances of h to their grid points
BucketAt(b, h, t) ==
    LET n == b.h_fracs.n_values
        on == {i \in 0..(n - 1) : Near(Point(b.h_fracs, i), h)}
    IN  IF on # {} THEN b.tables[(CHOOSE i \in on : TRUE) + 1].values[t]
        ELSE LET i == CHOOSE k \in 0..(n - 2) :
                        RLt(Point(b.h_fracs, k), h) /\ RLt(h, Point(b.h_fracs, k + 1))
                 lo == Point(b.h_fracs, i)
                 hi == Point(b.h_fracs, i + 1)
             IN  RDiv(RAdd(RMul(RSub(hi, h), b.tables[i + 1].values[t]),
                           RMul(RSub(h, lo), b.tables[i + 2].values[t])),
                      RSub(hi, lo))

\* C13: EOS AllTables::take_at_metallicity(z) returns the i-th bucket
\* unchanged when z is Exact(i); when z is Between(i, j) it returns a bucket
\* whose H fraction axis is the part of bucket i's axis within bucket j's
\* bounds and whose k-th table is the linear blend at z of bucket i's table
\* and bucket j's table at the k-th H fraction of that axis; it fails when z
\* is out of range or fewer than 2 points of the axis are within the bounds.
C13_EosTakeAtMetallicity ==
    call.op = "eos_take_at_metallicity" =>
        LET self == call.arg.self
            z == call.arg.metallicity
            m == self.metallicities
            on == {i \in 0..(m.n_values - 1) : Near(Point(m, i), z)}
        IN  IF on # {}
            THEN /\ call.res.tag = "Ok"
                 /\ \E i \in on : call.res.val = self.tables[i + 1]
            ELSE IF ~InBounds(m, z) THEN call.res.tag = "Err"
            ELSE LET i == CHOOSE k \in 0..(m.n_values - 2) :
                            RLt(Point(m, k), z) /\ RLt(z, Point(m, k + 1))
                     l == self.tables[i + 1]
                     r == self.tables[i + 2]
                     w == RDiv(RSub(Point(m, i + 1), z),
                               RSub(Point(m, i + 1), Point(m, i)))
                     within == PointsWithin(l.h_fracs, r.h_fracs)
                 IN  IF Cardinality(within) < 2 THEN call.res.tag = "Err"
                     ELSE /\ call.res.tag = "Ok"
                          /\ call.res.val.kind = "ConstMetalTables"
                          /\ \E lo \in within :
                                /\ \A k \in within : lo <= k
                                /\ call.res.val.h_fracs =
                                     Range(Point(l.h_fracs, lo), l.h_fracs.step,
                                           Cardinality(within))
                                /\ Len(call.res.val.tables) = Cardinality(within)
                                /\ \A k \in 1..Cardinality(within) :
                                     LET h == Point(l.h_fracs, lo + k - 1)
                                         tbl == call.res.val.tables[k]
                                     IN  /\ tbl.log_volume = l.tables[1].log_volume
                                         /\ tbl.log_energy = l.tables[1].log_energy
                                         /\ DOMAIN tbl.values = EosIdx
                                         /\ \A t \in EosIdx :
                                               tbl.values[t] =
                                                 RAdd(RMul(w, BucketAt(l, h, t)),
                                                      RMul(RSub(R(1), w), BucketAt(r, h, t)))

\* a metallicity between two buckets whose H fraction axes overlap in part,
\* the right bucket having no grid point at the H fractions kept
C13_Witness ==
    /\ call.op = "eos_take_at_metallicity" /\ call.res.tag = "Ok"
    /\ call.arg.metallicity = Norm(61, 2)
    /\ call.arg.self.tables[3].h_fracs = Range(R(4), R(8), 4)
    /\ call.res.val.h_fracs = Range(R(8), R(8), 3)

\* the value lies in [axis[1], axis[n-2]], the domain of the spline
SplineDomain(ax, v) ==
    RLe(Point(ax, 1), v) /\ RLe(v, Point(ax, NVals(ax) - 2))

\* the combined query of the call agrees with resolving the leaf table at
\* the H fraction first (by take_at_h_frac and by at_h_frac) and querying it
EosPathsAgree ==
    LET self == call.arg.self
        taken == Eos_take_at_h_frac(self, call.arg.h_frac)
        cloned == Eos_at_h_frac(self, call.arg.h_frac)
        leafAt(leaf) == VolumeEnergyTable_at(leaf, call.arg.log_energy,
                                             call.arg.log_volume, call.arg.var)
    IN  /\ taken.tag = "Ok" /\ cloned.tag = "Ok"
        /\ leafAt(taken.val).tag = "Ok" /\ leafAt(cloned.val).tag = "Ok"
        /\ call.res.tag = "Ok"
        /\ call.res.val = leafAt(taken.val).val
        /\ call.res.val = leafAt(cloned.val).val

\* C15: for every H fraction h, energy and volume in the valid domain and
\* every state variable, resolving the bucket to the leaf table at h first
\* (take_at_h_frac / at_h_frac) and then splining in (energy, volume) gives
\* the same value as the combined query ConstMetalTables::at(h, energy,
\* volume, var).
C15_CompositionOrder ==
    (/\ call.op = "eos_const_metal_at"
     /\ InBounds(call.arg.self.h_fracs, call.arg.h_frac)
     /\ SplineDomain(call.arg.self.tables[1].log_energy, call.arg.log_energy)
     /\ SplineDomain(call.arg.self.tables[1].log_volume, call.arg.log_volume))
        => EosPathsAgree

\* the two paths agree wherever the coordinates are below axis[n-2]
EosPathsAgreeBelowUpperBound ==
    (/\ call.op = "eos_const_metal_at"
     /\ InBounds(call.arg.self.h_fracs, call.arg.h_frac)
     /\ SplineDomain(call.arg.self.tables[1].log_energy, call.arg.log_energy)
     /\ SplineDomain(call.arg.self.tables[1].log_volume, call.arg.log_volume)
     /\ call.arg.log_energy # Point(call.arg.self.tables[1].log_energy, EosLen - 2)
     /\ call.arg.log_volume # Point(call.arg.self.tables[1].log_volume, EosLen - 2))
        => EosPathsAgree

\* the two axes differ: in the first value or the step by more than 1e-12,
\* or in the number of points
AxesDiffer(a, b) ==
    \/ ~Near(a.first, b.first)
    \/ ~Near(a.step, b.step)
    \/ a.n_values # b.n_values

----------------------------------------------------------------------------
(* Properties of the states *)

\* C18: after CstMetalState::set_state(he, d, e) the state holds the same
\* shared table handle as before and its h_frac, log_density, log_volume
\* and log_energy arrays are those a fresh CstMetalState::new(same table,
\* he, d, e) would hold, whatever the state held before.
C18_SetStateAsFresh ==
    (call.op = "set_state" /\ call.res.tag = "Ok") =>
        LET fresh == CstMetalState_new(call.arg.self.table, call.arg.he_frac,
                                       call.arg.density, call.arg.energy)
        IN  /\ state.table = call.arg.self.table
            /\ fresh.tag = "Ok"
            /\ state.h_frac = fresh.val.h_frac
            /\ state.log_density = fresh.val.log_density
            /\ state.log_volume = fresh.val.log_volume
            /\ state.log_energy = fresh.val.log_energy

\* a set_state that replaced every array of a state of nonzero metallicity
C18_Witness ==
    /\ call.op = "set_state" /\ call.res.tag = "Ok"
    /\ state.table = Arc(2, Norm(1, 50))
    /\ arr_shape(state.h_frac) = arr_shape(call.arg.self.h_frac)
    /\ state.h_frac # call.arg.self.h_frac
    /\ state.log_density # call.arg.self.log_density
    /\ state.log_volume # call.arg.self.log_volume
    /\ state.log_energy # call.arg.self.log_energy

\* C19: a set_state call whose arrays have a different shape from the
\* state's current arrays is rejected, so the shape of the arrays compute
\* maps over never changes over the lifetime of a state.
C19_SetStateKeepsShape ==
    (/\ call.op = "set_state"
     /\ arr_shape(call.arg.he_frac) # arr_shape(call.arg.self.h_frac))
        => /\ call.res.tag = "Panic"
           /\ arr_shape(state.log_volume) = arr_shape(call.arg.self.log_volume)

\* C20: CstCompoState::new, CstMetalState::new and CstMetalState::set_state
\* fail whenever density, energy or He fraction differ in shape, and a
\* failing set_state has modified none of the state's fields.
C20_ShapeMismatchFatal ==
    /\ (call.op = "CstCompoState_new"
          /\ arr_shape(call.arg.density) # arr_shape(call.arg.energy))
          => call.res.tag = "Panic" /\ state = NoState
    /\ (call.op = "CstMetalState_new"
          /\ \/ arr_shape(call.arg.he_frac) # arr_shape(call.arg.density)
             \/ arr_shape(call.arg.he_frac) # arr_shape(call.arg.energy)
             \/ arr_shape(call.arg.density) # arr_shape(call.arg.energy))
          => call.res.tag = "Panic" /\ state = NoState
    /\ (call.op = "set_state"
          /\ \/ arr_shape(call.arg.he_frac) # arr_shape(call.arg.density)
             \/ arr_shape(call.arg.he_frac) # arr_shape(call.arg.energy)
             \/ arr_shape(call.arg.density) # arr_shape(call.arg.energy))
          => call.res.tag = "Panic" /\ state = call.arg.self
    /\ (call.op = "set_state" /\ call.res.tag # "Ok") => state = call.arg.self

\* a set_state whose energy alone has another shape failed on a state that
\* an earlier set_state had changed
C20_Witness ==
    /\ call.op = "set_state" /\ call.res.tag = "Panic"
    /\ arr_shape(call.arg.he_frac) = arr_shape(call.arg.density)
    /\ arr_shape(call.arg.he_frac) # arr_shape(call.arg.energy)
    /\ arr_shape(call.arg.he_frac) = arr_shape(state.h_frac)
    /\ call.arg.he_frac # HeFracArray(arr_shape(state.h_frac), 1)
    /\ state.h_frac = [t \in arr_shape(state.h_frac) |-> Norm(39, 50)]
    /\ state.kind = "CstMetalState"

----------------------------------------------------------------------------
(* Properties of the routing of exact hits *)

\* the calls that classify a value on an axis and may build a LinearInterpolator
SelectionCalls ==
    {"idx_lin", "linear_stencil", "take_at_metallicity", "take_at_h_frac",
     "ConstMetalTables_at", "RTempTable_at"}

\* C28: whenever idx_lin returns Between(i, j), j = i + 1, both indices are
\* valid and axis[i] < value < axis[j] strictly, so LinearInterpolator::new
\* accepts these anchors; no idx_lin, linear_stencil or opacity selection
\* call ends in a panic (failed assertion, unwrap on None, index underflow).
C28_BetweenIsStrict ==
    /\ (call.op = "idx_lin" /\ call.res.tag = "Ok" /\ call.res.val.tag = "Between") =>
          /\ call.res.val.j = call.res.val.i + 1
          /\ 0 <= call.res.val.i
          /\ call.res.val.j <= NVals(axis) - 1
          /\ RLt(Point(axis, call.res.val.i), call.arg)
          /\ RLt(call.arg, Point(axis, call.res.val.j))
          /\ LinearInterpolator_new(Point(axis, call.res.val.i),
                                    Point(axis, call.res.val.j), call.arg).tag = "Ok"
    /\ (call.op \in SelectionCalls) => call.res.tag # "Panic"

\* a value strictly between two interior points of an unevenly spaced axis,
\* right after a point it is not close to
C28_Witness ==
    /\ call.op = "idx_lin" /\ axis.kind = "Custom"
    /\ call.res.tag = "Ok" /\ call.res.val = Between(1, 2)
    /\ NVals(axis) = 4
    /\ call.arg = RAdd(Point(axis, 1), Norm(3, 2))

----------------------------------------------------------------------------
(* Properties of the cubic queries *)

\* v lies in [axis[1], axis[n-2]], up to the tolerance at either end
InsideMargin(ax, v) ==
    /\ NVals(ax) >= 4
    /\ RLe(RSub(Point(ax, 1), R(TolUnits)), v)
    /\ RLe(v, RAdd(Point(ax, NVals(ax) - 2), R(TolUnits)))

\* C27: VolumeEnergyTable::at returns an error or reads axis points and
\* values only at indices in [0, n-1] on both axes, a 4-point window
\* [i-1, i+2] having i >= 1 and i+2 <= n-1; it returns an error for every
\* coordinate outside [axis[1], axis[n-2]] (classified at or next to index 0
\* or n-1); every window Range::spline_stencil returns has 0 <= r.start,
\* r.end = r.start + 4 <= n_values, and it too returns an error outside
\* [axis[1], axis[n-2]].
C27_ReadsInsideGrid ==
    /\ (call.op = "eos_table_at") =>
          LET self == call.arg.self
              reads == VolumeEnergyTable_at_reads(self, call.arg.log_energy,
                                                  call.arg.log_volume)
          IN  /\ call.res.tag \in {"Ok", "Err"}
              /\ reads.e \subseteq 0..(self.log_energy.n_values - 1)
              /\ reads.v \subseteq 0..(self.log_volume.n_values - 1)
              /\ \A t \in reads.e \X reads.v : <<t[1], t[2], call.arg.var>> \in DOMAIN self.values
              /\ (call.res.tag = "Ok") <=> (reads.e # {} /\ reads.v # {})
              /\ (call.res.tag = "Ok") =>
                    /\ InsideMargin(self.log_energy, call.arg.log_energy)
                    /\ InsideMargin(self.log_volume, call.arg.log_volume)
    /\ (call.op = "eos_spline_stencil" /\ call.res.tag = "Ok") =>
          /\ 0 <= call.res.val.r[1]
          /\ call.res.val.r[2] = call.res.val.r[1] + 4
          /\ call.res.val.r[2] <= call.arg.self.n_values
          /\ InsideMargin(call.arg.self, call.arg.value)

\* a query between grid points on both axes, in the last cell at accepts:
\* the 4 x 4 window ends at the last index of both axes
C27_Witness ==
    /\ call.op = "eos_table_at" /\ call.res.tag = "Ok"
    /\ VolumeEnergyTable_at_reads(call.arg.self, call.arg.log_energy,
                                  call.arg.log_volume)
         = [e |-> (EosLen - 4)..(EosLen - 1), v |-> (EosLen - 4)..(EosLen - 1)]

----------------------------------------------------------------------------
(* Properties of the consuming selections *)

\* the buckets or tables of a registry level, as constructed (0-based)
Original(self, i) == self.tables[i + 1]

\* C26: take_at_h_frac(h) returns what at_h_frac(h) returns on the same
\* tables: for Exact(i) the table originally at position i, for
\* Between(i, j) the blend of the tables originally at positions i and j;
\* take_at_metallicity likewise returns the bucket originally at position i,
\* or the bucket blended from the buckets originally at positions i and j.
C26_TakeAgreesWithBorrow ==
    /\ (call.op = "eos_take_at_h_frac") =>
          LET self == call.arg.self
              h == call.arg.h_frac
              idx == Range_idx_lin(self.h_fracs, h)
          IN  /\ call.res = Eos_at_h_frac(self, h)
              /\ (call.res.tag = "Ok") <=> (idx.tag = "Ok")
              /\ (idx.tag = "Ok" /\ idx.val.tag = "Exact") =>
                    call.res.val = Original(self, idx.val.i)
              /\ (idx.tag = "Ok" /\ idx.val.tag = "Between") =>
                    call.res =
                      interp_with(Original(self, idx.val.i), Original(self, idx.val.j),
                                  LinearInterpolator_new(
                                      Point(self.h_fracs, idx.val.i),
                                      Point(self.h_fracs, idx.val.j), h).val)
    /\ (call.op = "eos_take_at_metallicity") =>
          LET self == call.arg.self
              z == call.arg.metallicity
              idx == Range_idx_lin(self.metallicities, z)
          IN  /\ (idx.tag = "Ok" /\ idx.val.tag = "Exact") =>
                    call.res = Ok(Original(self, idx.val.i))
              /\ (idx.tag = "Ok" /\ idx.val.tag = "Between" /\ call.res.tag = "Ok") =>
                    LET l == Original(self, idx.val.i)
                        r == Original(self, idx.val.j)
                        lin == LinearInterpolator_new(
                                   Point(self.metallicities, idx.val.i),
                                   Point(self.metallicities, idx.val.j), z).val
                        got == call.res.val
                    IN  /\ Some(got.h_fracs) = Range_subrange_in(l.h_fracs, r.h_fracs)
                        /\ \A k \in 1..got.h_fracs.n_values :
                              Ok(got.tables[k]) =
                                interp_with(Eos_at_h_frac(l, Point(got.h_fracs, k - 1)).val,
                                            Eos_at_h_frac(r, Point(got.h_fracs, k - 1)).val,
                                            lin)

\* a blend of the first two of three tables: the first removal has moved
\* the last table into position j
C26_Witness ==
    /\ call.op = "eos_take_at_h_frac" /\ call.res.tag = "Ok"
    /\ Len(call.arg.self.tables) = 3
    /\ Range_idx_lin(call.arg.self.h_fracs, call.arg.h_frac) = Ok(Between(0, 1))
    /\ Original(call.arg.self, 1) # Original(call.arg.self, 2)

----------------------------------------------------------------------------
(* Properties of the embedded EOS registry *)

\* C30: in the registry AllTables::default builds, the metallicity axis has
\* one grid point per bucket, every bucket's H fraction axis has one grid
\* point per table, every H fraction grid point h of the bucket at
\* metallicity z has 0 <= h and h + z <= 1, and take_at_metallicity between
\* two adjacent buckets finds an H fraction intersection of at least 2 points.
C30_RegistryConsistent ==
    /\ (eos.kind = "AllTables") =>
          /\ eos.metallicities.n_values = Len(eos.tables)
          /\ \A b \in 1..Len(eos.tables) :
                /\ eos.tables[b].h_fracs.n_values = Len(eos.tables[b].tables)
                /\ \A k \in 0..(eos.tables[b].h_fracs.n_values - 1) :
                      /\ RLe(R(0), Point(eos.tables[b].h_fracs, k))
                      /\ RLe(RAdd(Point(eos.tables[b].h_fracs, k),
                                  Point(eos.metallicities, b - 1)), UnitFraction)
    /\ (/\ call.op = "eos_take_at_metallicity"
        /\ RLe(call.arg.self.metallicities.first, call.arg.metallicity)
        /\ RLe(call.arg.metallicity, last(call.arg.self.metallicities))) =>
          /\ call.res.tag = "Ok"
          /\ call.res.val.h_fracs.n_values >= 2

----------------------------------------------------------------------------
(* Properties of the derivation of the state coordinates *)

\* the calls that derive the coordinates of a state from density and energy
DerivingCalls == {"CstCompoState_new", "CstMetalState_new", "set_state"}

\* C24: for a state built (or reset) from density d and energy e, every
\* element has log_energy = log10(e) and log_volume = 20 + log10(d) -
\* 0.7 * log_energy, so that log_volume + 0.7 * log_energy - 20 recovers
\* log10(d), and the stored log_density equals log10(d).
C24_DerivationRoundTrip ==
    (call.op \in DerivingCalls /\ call.res.tag = "Ok") =>
        /\ arr_shape(state.log_energy) = arr_shape(call.arg.energy)
        /\ arr_shape(state.log_volume) = arr_shape(call.arg.density)
        /\ arr_shape(state.log_density) = arr_shape(call.arg.density)
        /\ \A t \in arr_shape(call.arg.density) :
              /\ state.log_energy[t] = log10(call.arg.energy[t])
              /\ state.log_volume[t] =
                    RSub(RAdd(R(20), log10(call.arg.density[t])),
                         RMul(Norm(7, 10), state.log_energy[t]))
              /\ RSub(RAdd(state.log_volume[t],
                           RMul(Norm(7, 10), state.log_energy[t])), R(20))
                    = log10(call.arg.density[t])
              /\ state.log_density[t] = log10(call.arg.density[t])

\* a state of two elements built from densities 100, 10 and energies 1e3,
\* 1e4: the first log_volume is 20 + 2 - 2.1
C24_Witness ==
    /\ call.op \in DerivingCalls /\ call.res.tag = "Ok"
    /\ call.arg.density = DensityArray({<<0>>, <<1>>}, 2)
    /\ call.arg.energy = EnergyArray({<<0>>, <<1>>}, 2)
    /\ state.log_volume[<<0>>] = Norm(199, 10)
    /\ state.log_density[<<1>>] = R(1)

----------------------------------------------------------------------------
(* Properties of the queries on the states *)

\* the query compute makes for the element t of a state
ElementQuery(self, t, var) ==
    IF self.kind = "CstCompoState"
    THEN VolumeEnergyTable_at(Arc_VolumeEnergyTable(self.table),
                              TableUnits(self.log_energy[t]),
                              TableUnits(self.log_volume[t]), var)
    ELSE Eos_ConstMetalTables_at(Arc_ConstMetalTables(self.table),
                                 TableUnits(self.h_frac[t]),
                                 TableUnits(self.log_energy[t]),
                                 TableUnits(self.log_volume[t]), var)

\* the query the opacity compute makes for the element t: the temperature
\* of the element from the state's table, then the opacity table at it
OpacityQuery(self, t) ==
    Let(ElementQuery(self.state, t, 1), LAMBDA logt :
        IF logt.tag # "Ok" THEN logt
        ELSE RTempTable_at(self.table, logt.val,
                RSub(RAdd(self.state.log_density[t], R(18)),
                     RMul(R(3), logt.val))))

\* C21: CstCompoState::compute, CstMetalState::compute and
\* CstCompoOpacity::compute either return an array of the input shape
\* holding the value of every element's query, or abort the whole call when
\* the query of any single element fails; no partial result is returned.
C21_ComputeAllOrNothing ==
    /\ (call.op = "compute") =>
          IF \A t \in arr_shape(LastSet.density) :
                ElementQuery(call.arg.self, t, call.arg.var).tag = "Ok"
          THEN /\ call.res.tag = "Ok"
               /\ arr_shape(call.res.val) = arr_shape(LastSet.density)
               /\ \A t \in arr_shape(call.res.val) :
                     call.res.val[t] = ElementQuery(call.arg.self, t, call.arg.var).val
          ELSE call.res.tag = "Panic"
    /\ (call.op = "opacity_compute") =>
          IF \A t \in arr_shape(opac.state.log_density) :
                OpacityQuery(opac, t).tag = "Ok"
          THEN /\ call.res.tag = "Ok"
               /\ arr_shape(call.res.val) = arr_shape(opac.state.log_density)
               /\ \A t \in arr_shape(call.res.val) :
                     call.res.val[t] = OpacityQuery(opac, t).val
          ELSE call.res.tag = "Panic"

\* a compute aborted on an array of which the query of one element succeeds
\* and that of another fails
C21_Witness ==
    /\ call.op = "compute" /\ call.res.tag = "Panic"
    /\ \E t, u \in arr_shape(LastSet.density) :
          /\ ElementQuery(call.arg.self, t, call.arg.var).tag = "Ok"
          /\ ElementQuery(call.arg.self, u, call.arg.var).tag = "Err"

\* the state new builds on the table of self from the arguments a
FreshState(self, a) ==
    IF self.kind = "CstCompoState"
    THEN CstCompoState_new(self.table, a.density, a.energy).val
    ELSE CstMetalState_new(self.table, a.he_frac, a.density, a.energy).val

\* the result of compute(var) on a state
ComputeOn(self, var) ==
    IF self.kind = "CstCompoState"
    THEN CstCompoState_compute(self, var).res
    ELSE CstMetalState_compute(self, var).res

\* C22: compute(var) leaves the state's arrays and its table handle as they
\* were, returns what the latest compute(var) since the most recent
\* set_state (or new) returned, and returns what compute(var) returns on a
\* state freshly built on the same table from the arguments of the most
\* recent set_state (or new).
C22_QueriesPure ==
    (call.op = "compute") =>
        /\ state = call.arg.self
        /\ call.arg.seen[call.arg.var].some =>
              call.res = call.arg.seen[call.arg.var].val
        /\ call.res = ComputeOn(FreshState(call.arg.self, call.arg.since),
                                call.arg.var)

\* a second compute of one variable since a set_state that replaced the
\* coordinates of a state on which the same variable had been computed
C22_Witness ==
    /\ call.op = "compute" /\ call.res.tag = "Ok"
    /\ call.arg.seen[call.arg.var].some
    /\ "self" \in DOMAIN call.arg.since
    /\ call.arg.since.self.log_volume # state.log_volume
    /\ ComputeOn(call.arg.since.self, call.arg.var).tag = "Ok"
    /\ ComputeOn(call.arg.since.self, call.arg.var) # call.res

----------------------------------------------------------------------------
(* Properties of the composition interpolation of a state *)

\* the H fraction derived from a He fraction on the table of self
DerivedHFrac(self, he) == RSub(RSub(R(1), he), Eos_metallicity(self.table))

\* the three H fractions lie in one cell of the H fraction grid
SameCell(ax, h0, h1, h2) ==
    \E i \in 0..(ax.n_values - 2) :
        \A h \in {h0, h1, h2} :
            RLe(at(ax, i), TableUnits(h)) /\ RLe(TableUnits(h), at(ax, i + 1))

\* the triples of elements of the arguments a that have one density, one
\* energy and equally spaced, distinct He fractions
EvenTriples(a) ==
    {tr \in arr_shape(a.he_frac) \X arr_shape(a.he_frac) \X arr_shape(a.he_frac) :
        /\ a.density[tr[1]] = a.density[tr[2]] /\ a.density[tr[2]] = a.density[tr[3]]
        /\ a.energy[tr[1]] = a.energy[tr[2]] /\ a.energy[tr[2]] = a.energy[tr[3]]
        /\ a.he_frac[tr[1]] # a.he_frac[tr[2]]
        /\ RSub(a.he_frac[tr[2]], a.he_frac[tr[1]])
             = RSub(a.he_frac[tr[3]], a.he_frac[tr[2]])}

\* C25: in the array computed after a set_state on a CstMetalState, for any
\* three elements given one density, one energy and equally spaced He
\* fractions by that set_state, whose H fractions 1 - He - metallicity lie in
\* one cell of the H fraction grid, the value of the middle element is the
\* average of the values of the two outer ones.
C25_MidpointIsAverage ==
    (/\ call.op = "compute" /\ call.res.tag = "Ok"
     /\ state.kind = "CstMetalState"
     /\ "self" \in DOMAIN call.arg.since) =>
        \A tr \in EvenTriples(call.arg.since) :
            SameCell(Arc_ConstMetalTables(state.table).h_fracs,
                     DerivedHFrac(state, call.arg.since.he_frac[tr[1]]),
                     DerivedHFrac(state, call.arg.since.he_frac[tr[2]]),
                     DerivedHFrac(state, call.arg.since.he_frac[tr[3]]))
            => call.res.val[tr[2]] =
                  RDiv(RAdd(call.res.val[tr[1]], call.res.val[tr[3]]), R(2))

\* a compute after a set_state with He fractions 0.10, 0.15, 0.20 on a state
\* built with other He fractions, whose three values differ
C25_Witness ==
    /\ call.op = "compute" /\ call.res.tag = "Ok"
    /\ state.kind = "CstMetalState"
    /\ "self" \in DOMAIN call.arg.since
    /\ call.arg.since.he_frac = HeFracArray(ThreeCells, 3)
    /\ call.arg.since.self.h_frac # state.h_frac
    /\ call.res.val[<<0>>] # call.res.val[<<1>>]
    /\ call.res.val[<<1>>] = RDiv(RAdd(call.res.val[<<0>>], call.res.val[<<2>>]), R(2))

----------------------------------------------------------------------------
(* Properties of the decoding of EOS tables *)

\* the extents the header record declares
DeclaredNe == stream[1].elts[1]
DeclaredNv == stream[1].elts[2]
DeclaredNvars == stream[1].elts[3]

\* the record r of the stream is whole and has n elements of the size given
RecordPasses(r, n, size) ==
    /\ r <= Len(stream)
    /\ stream[r].pre = n * size /\ stream[r].post = stream[r].pre
    /\ Len(stream[r].elts) = n /\ ~stream[r].cut

\* the k-th value record (0-based) is stored at values[k mod ne, k div ne, :]
ValueRecordStored(values, k) ==
    \A j \in 0..(DeclaredNvars - 1) :
        values[<<k % DeclaredNe, k \div DeclaredNe, j>>] = stream[4 + k].elts[j + 1]

\* C23: the decode reads the header (ne, nv, nvars), then a record of nv
\* log-volume values, then a record of ne log-energy values, then nv * ne
\* records of nvars values, the k-th of which (0-based) is stored at
\* values[k mod ne, k div ne, :]; a table is returned only when every one
\* of these records passed the reader's checks, and a failing record ends
\* the decode with an error and no table.
C23_DecodeOrder ==
    /\ (pc = "log_volume") => pos = 1 /\ RecordPasses(1, 3, 4)
    /\ (pc = "log_energy") =>
          /\ pos = 2 /\ RecordPasses(2, DeclaredNv, 8)
          /\ eos.log_volume = Range_from_slice(stream[2].elts).val
    /\ (pc = "values") =>
          /\ pos = 3 + eos.i_v * DeclaredNe + eos.i_e
          /\ pos < 3 + DeclaredNv * DeclaredNe
          /\ RecordPasses(3, DeclaredNe, 8)
          /\ eos.log_energy = Range_from_slice(stream[3].elts).val
          /\ \A k \in 0..(pos - 4) :
                /\ RecordPasses(4 + k, DeclaredNvars, 8)
                /\ ValueRecordStored(eos.values, k)
    /\ (pc = "ok") =>
          /\ pos = 3 + DeclaredNv * DeclaredNe
          /\ RecordPasses(1, 3, 4)
          /\ RecordPasses(2, DeclaredNv, 8)
          /\ RecordPasses(3, DeclaredNe, 8)
          /\ eos.kind = "VolumeEnergyTable"
          /\ eos.log_volume = Range_from_slice(stream[2].elts).val
          /\ eos.log_energy = Range_from_slice(stream[3].elts).val
          /\ eos.log_volume.n_values = DeclaredNv
          /\ eos.log_energy.n_values = DeclaredNe
          /\ arr_shape(eos.values) =
                {<<i, j, k>> : i \in 0..(DeclaredNe - 1), j \in 0..(DeclaredNv - 1),
                               k \in 0..(DeclaredNvars - 1)}
          /\ \A k \in 0..(DeclaredNv * DeclaredNe - 1) :
                /\ RecordPasses(4 + k, DeclaredNvars, 8)
                /\ ValueRecordStored(eos.values, k)
    /\ (pc = "err") =>
          /\ eos = NoTable
          /\ err # NoErr
          /\ IF pos = 0 THEN ~RecordPasses(1, 3, 4)
             ELSE IF pos = 1
             THEN RecordPasses(2, DeclaredNv, 8)
                     => Range_from_slice(stream[2].elts).tag = "Err"
             ELSE IF pos = 2
             THEN RecordPasses(3, DeclaredNe, 8)
                     => Range_from_slice(stream[3].elts).tag = "Err"
             ELSE /\ pos < 3 + DeclaredNv * DeclaredNe
                  /\ ~RecordPasses(pos + 1, DeclaredNvars, 8)

\* a table of 2 energies, 3 volumes and 2 variables has been decoded: the
\* record 3 (0-based) of the file is at values[1, 1, :]
C23_Witness ==
    /\ pc = "ok"
    /\ DeclaredNe = 2 /\ DeclaredNv = 3 /\ DeclaredNvars = 2
    /\ eos.values[<<1, 1, 0>>] = R(300)
    /\ eos.values[<<1, 1, 1>>] = R(301)
    /\ eos.values[<<0, 2, 0>>] = R(400)

----------------------------------------------------------------------------
(* Properties of the opacity objects *)

\* C29: the table an opacity object holds is the table for the composition
\* of the state it holds: for a CstCompoOpacity the table's metallicity and
\* H fraction are within the tolerance of the state's, for a CstMetalOpacity
\* the table's metallicity is within the tolerance of the state's; and a
\* set_state keeps the table it had exactly when the composition of the new
\* state is within the tolerance of that of the state held before.
C29_TableMatchesState ==
    /\ (opac.kind = "CstCompoOpacity") =>
          /\ is_close(opac.table.metallicity, State_metallicity(opac.state))
          /\ is_close(opac.table.h_frac, CstCompoState_h_frac(opac.state))
    /\ (opac.kind = "CstMetalOpacity") =>
          is_close(opac.table.metallicity, State_metallicity(opac.state))
    /\ (call.op = "opacity_set_state" /\ call.res.tag = "Ok") =>
          /\ opac.state = call.arg.state
          /\ IF /\ is_close(State_metallicity(call.arg.self.state),
                            State_metallicity(call.arg.state))
                /\ call.arg.self.kind = "CstCompoOpacity" =>
                      is_close(CstCompoState_h_frac(call.arg.self.state),
                               CstCompoState_h_frac(call.arg.state))
             THEN opac.table = call.arg.self.table
             ELSE /\ opac.table.metallicity = State_metallicity(call.arg.state)
                  /\ call.arg.self.kind = "CstCompoOpacity" =>
                        opac.table.h_frac = CstCompoState_h_frac(call.arg.state)

====
